---------------------------- MODULE Spec2Model ----------------------------
(***************************************************************************)
(* The OAuth 2.1 authorization layer of the MCP server: the State Store,   *)
(* the AuthorizationCode / AccessToken store, PKCE verification, and the   *)
(* Authorization, Callback and Token endpoint handlers.                    *)
(*                                                                         *)
(* Time is counted in minutes.  Opaque random strings are drawn fresh from *)
(* finite pools.  Every HTTP request is served on its own goroutine        *)
(* (net/http), so a handler is a sequence of steps, one per access to a    *)
(* shared store, and steps of different requests interleave.               *)
(***************************************************************************)
EXTENDS Integers, Sequences, FiniteSets, TLC

(***************************************************************************)
(* Bounds of the model.                                                    *)
(***************************************************************************)
\* The clock advances in steps of TickStep minutes up to MaxTime.
TickStep == 5
MaxTime == 15
\* How many connections the chat server registers and how many messages it
\* broadcasts in one behaviour.
MaxConns == 2
MaxMessages == 3
\* How many internal state tokens, authorization codes and access tokens
\* the random generator hands out in one behaviour.
MaxStates == 2
MaxCodes == 2
MaxTokens == 2
\* The same for the state tokens when the Authorization Endpoint is explored
\* alone over the whole space of its requests.
MaxAuthzStates == 1
MaxRegistrations == 2
MaxScopes == 3
MaxAdds == 3

(***************************************************************************)
(* Program constants.                                                      *)
(***************************************************************************)
\* StateStore.Store: cutoff := time.Now().Add(-10 * time.Minute)
StateTTL == 10
\* CallbackHandler.ServeHTTP: ExpiresAt: time.Now().Add(10 * time.Minute)
AuthCodeTTL == 10
StatusFound == 302
StatusOK == 200
StatusCreated == 201
StatusBadRequest == 400
StatusUnauthorized == 401
StatusForbidden == 403
StatusMethodNotAllowed == 405
StatusInternalServerError == 500

\* Config.ScopesSupported of DefaultConfig
ScopesSupported == {"mcp:tools", "mcp:resources", "read:user"}
\* AuthorizationHandler.ServeHTTP: scope = "mcp:tools mcp:resources read:user"
DefaultScope == <<"mcp:tools", "mcp:resources", "read:user">>

\* The configurations the server is started with.  TokenExpiryDuration is
\* TOKEN_EXPIRY_SECONDS=600, in minutes.
Configs ==
  { [ TokenExpiryDuration |-> 10,
      GitHubAuthURL |-> "https://github.com/login/oauth/authorize",
      ServerURL |-> "http://localhost:8080",
      GitHubClientID |-> "github-client-id",
      EnableDCR |-> TRUE,
      AllowPublicClients |-> TRUE ] }

\* The configurations with ENABLE_DCR and ALLOW_PUBLIC_CLIENTS set either
\* way.
RegistrationConfigs ==
  { [c EXCEPT !.EnableDCR = e, !.AllowPublicClients = a] :
      c \in Configs, e \in BOOLEAN, a \in BOOLEAN }

(***************************************************************************)
(* Values.                                                                 *)
(***************************************************************************)
EmptyMap == [x \in {} |-> ""]

\* generateRandomString: the n-th string handed out for each purpose.
StateTokens == <<"st1", "st2", "st3", "st4">>
AuthCodes == <<"ac1", "ac2", "ac3", "ac4">>
AccessTokens == <<"at1", "at2", "at3", "at4">>

\* url.Parse fails on a string with a colon before any scheme.
UrlParseOK(u) == u # "://bad"

\* The redirect URIs of the pre-registered VS Code client.
VSCodeRedirectURIs ==
  << "http://127.0.0.1:33418", "http://127.0.0.1:33418/",
     "http://127.0.0.1:33418/done", "https://vscode.dev/redirect" >>

\* NewInMemoryClientStorageWithDefaults: the public "vscode" client.
DefaultClients ==
  [ id \in {"vscode"} |->
      [ ClientSecret |-> "",
        RedirectURIs |-> VSCodeRedirectURIs,
        TokenEndpointAuthMethod |-> "none" ] ]

\* A confidential client as RegistrationHandler.ServeHTTP stores it:
\* a generated client_id, the hash of the generated secret, its metadata.
RegisteredClients ==
  [ id \in {"dcr1"} |->
      [ ClientSecret |-> "hash(sec1)",
        RedirectURIs |-> << "https://client.example/cb" >>,
        TokenEndpointAuthMethod |-> "client_secret_basic" ] ]

(***************************************************************************)
(* PKCE.                                                                   *)
(***************************************************************************)
\* base64.RawURLEncoding(sha256.Sum256(verifier)): a fixed injective table
\* over the verifiers of the model.
S256(verifier) ==
  CASE verifier = "v1" -> "E9Melhoa"
    [] verifier = "v2" -> "K7gNU3sd"
    [] OTHER -> "47DEQpj8"

VerifyPKCEAny(codeVerifier, codeChallenge, method) == method = "S256"

\* verifyPKCE
verifyPKCE(codeVerifier, codeChallenge, method) ==
  IF method # "S256" THEN FALSE
  ELSE S256(codeVerifier) = codeChallenge

(***************************************************************************)
(* State.                                                                  *)
(***************************************************************************)
VARIABLES
  config,        \* *Config
  now,           \* time.Now()
  clients,       \* InMemoryClientStorage.clients
  storedArr,     \* per stored client: the backing array of its RedirectURIs
  held,          \* the client records in the hands of the store's callers
  states,        \* StateStore.states
  authCodes,     \* InMemoryTokenStorage.authCodes
  accessTokens,  \* InMemoryTokenStorage.accessTokens
  tokenCache,    \* InMemoryTokenCache.cache
  oauthConfig,   \* package variable oauthConfig of the bearer-token server
  validTokens,   \* validTokens.tokens, the TokenStore of that server
  tokenOps,      \* history: per token, the last Add or Delete on validTokens
  minted,        \* how many random strings of each kind were generated
  pc,            \* per request slot: the handler's position
  loc,           \* per request slot: the handler's locals, then its response
  codeLog,       \* history: every authorization code minted, with the state
                 \* token it came from, the requests that passed the Token
                 \* Endpoint's checks with it, the access tokens issued
                 \* and whether a request failed the PKCE check with it
  connections,   \* chat.Server.connections: sessionID -> *Connection
  channels,      \* per Connection: its MessageChan, open or closed, and
                 \* the messages buffered in it
  messages,      \* chat.Server.messages
  chat           \* per goroutine calling the chat server: its position and
                 \* its locals

vars ==
  << config, now, clients, storedArr, held, states, authCodes, accessTokens,
     tokenCache, oauthConfig, validTokens, tokenOps, minted, pc, loc, codeLog,
     connections, channels, messages, chat >>

\* The chat server.
chatVars == << connections, channels, messages, chat >>

\* The bearer-token server and the chat server, which the handlers of the
\* OAuth server leave alone.
legacyVars == << oauthConfig, validTokens, tokenOps, chatVars >>

\* The goroutines that call the chat server at the same time.
Goroutines == {"g1", "g2"}

\* The request slots: goroutines serving requests at the same time.
Procs == {"r1", "r2"}

(***************************************************************************)
(* Maps.                                                                   *)
(***************************************************************************)
MapPut(m, k, v) == [x \in DOMAIN m \cup {k} |-> IF x = k THEN v ELSE m[x]]
MapDelete(m, k) == [x \in DOMAIN m \ {k} |-> m[x]]
MapKeep(m, keys) == [x \in keys |-> m[x]]

(***************************************************************************)
(* Responses.                                                              *)
(***************************************************************************)
\* http.Error(w, body, status); the body is the sequence of its parts
HttpError(status, body) ==
  [ kind |-> "body", status |-> status, location |-> "", query |-> EmptyMap,
    body |-> body ]

\* http.Redirect(w, r, location + "?" + query, http.StatusFound)
HttpRedirect(location, query) ==
  [ kind |-> "redirect", status |-> StatusFound, location |-> location,
    query |-> query, body |-> <<>> ]

\* a JSON body written with the given status
HttpJSON(status, fields) ==
  [ kind |-> "json", status |-> status, location |-> "", query |-> fields,
    body |-> <<>> ]

NoStep == [ep |-> "none"]

\* var oauthConfig *oauth2.Config, before InitOAuth
NilConfig == [set |-> FALSE]

(***************************************************************************)
(* Client Store.                                                           *)
(***************************************************************************)
\* InMemoryClientStorage.GetClient: err == nil
ClientExists(clientID) == clientID \in DOMAIN clients

\* The callers of the Client Store, each holding at most one *OAuthClient.
Handles == {"h1"}

\* A nil *OAuthClient.
NoRecord == [id |-> ""]

\* The backing arrays in use, and one that is not: what make or a slice
\* literal allocates.
ArraysInUse ==
  {storedArr[c] : c \in DOMAIN storedArr}
    \cup {held[h].arr : h \in {g \in Handles : held[g] # NoRecord}}

FreshArray ==
  CHOOSE a \in 1..(Cardinality(ArraysInUse) + 1) : a \notin ArraysInUse

\* A write of element i of backing array a: every slice on the array, in
\* the store and in the callers' hands, reads the new element.
WriteElement(a, i, uri) ==
  /\ clients' =
       [c \in DOMAIN clients |->
          IF storedArr[c] = a
          THEN [clients[c] EXCEPT !.RedirectURIs[i] = uri]
          ELSE clients[c]]
  /\ held' =
       [g \in Handles |->
          IF held[g] # NoRecord /\ held[g].arr = a
          THEN [held[g] EXCEPT !.client.RedirectURIs[i] = uri]
          ELSE held[g]]

\* The variables the Client Store and its callers leave alone.
flowVars ==
  << config, now, states, authCodes, accessTokens, tokenCache, legacyVars,
     minted, pc, loc, codeLog >>

\* A caller builds a client record of its own.
CallerNew(h) ==
  /\ held[h] = NoRecord
  /\ held' = [held EXCEPT ![h] =
       [ id |-> "app1", from |-> "caller",
         client |-> [ ClientSecret |-> "",
                      RedirectURIs |-> << "https://app.example/cb" >>,
                      TokenEndpointAuthMethod |-> "none" ],
         arr |-> FreshArray ]]
  /\ UNCHANGED <<clients, storedArr, flowVars>>

\* InMemoryClientStorage.StoreClient: storedClient := *client copies the
\* struct; the copy's RedirectURIs is a slice on the caller's array.
CallerStore(h) ==
  /\ held[h] # NoRecord
  /\ clients' = MapPut(clients, held[h].id, held[h].client)
  /\ storedArr' = MapPut(storedArr, held[h].id, held[h].arr)
  /\ UNCHANGED <<held, legacyVars, flowVars>>

\* InMemoryClientStorage.GetClient: clientCopy := *client copies the
\* struct; the copy's RedirectURIs is a slice on the stored array.
CallerGet(h, clientID) ==
  /\ held[h] = NoRecord
  /\ ClientExists(clientID)
  /\ held' = [held EXCEPT ![h] =
       [ id |-> clientID, from |-> "GetClient", client |-> clients[clientID],
         arr |-> storedArr[clientID] ]]
  /\ UNCHANGED <<clients, storedArr, flowVars>>

\* InMemoryClientStorage.ListClients; the caller keeps the element of
\* client clientID.
CallerList(h, clientID) ==
  /\ held[h] = NoRecord
  /\ clientID \in DOMAIN clients
  /\ held' = [held EXCEPT ![h] =
       [ id |-> clientID, from |-> "ListClients",
         client |-> clients[clientID], arr |-> storedArr[clientID] ]]
  /\ UNCHANGED <<clients, storedArr, flowVars>>

\* A caller assigns to a field of the record it holds.
CallerSetSecret(h, secret) ==
  /\ held[h] # NoRecord
  /\ held' = [held EXCEPT ![h].client.ClientSecret = secret]
  /\ UNCHANGED <<clients, storedArr, flowVars>>

\* A caller assigns a new list to the RedirectURIs of the record it holds.
CallerSetURIs(h, uris) ==
  /\ held[h] # NoRecord
  /\ held' = [held EXCEPT ![h].client.RedirectURIs = uris,
                          ![h].arr = FreshArray]
  /\ UNCHANGED <<clients, storedArr, flowVars>>

\* A caller assigns to element i of the RedirectURIs of the record it
\* holds.
CallerSetURIElement(h, i, uri) ==
  /\ held[h] # NoRecord
  /\ i \in 1..Len(held[h].client.RedirectURIs)
  /\ WriteElement(held[h].arr, i, uri)
  /\ UNCHANGED <<storedArr, flowVars>>

\* A caller lets go of the record it holds.
CallerDrop(h) ==
  /\ held[h] # NoRecord
  /\ held' = [held EXCEPT ![h] = NoRecord]
  /\ UNCHANGED <<clients, storedArr, flowVars>>

(***************************************************************************)
(* State Store.                                                            *)
(***************************************************************************)
StateStoreSweepNever(m, t) == m

\* StateStore.Store, the loop: delete the states created before the cutoff
StateStoreSweep(m, t) ==
  MapKeep(m, {k \in DOMAIN m : ~(m[k].CreatedAt < t - StateTTL)})

\* StateStore.Store
StateStoreStore(m, state, authState, t) ==
  StateStoreSweep(MapPut(m, state, authState), t)

\* StateStore.Get: ok
StateStoreHas(m, state) == state \in DOMAIN m

StateStoreDeleteNoop(m, state) == m

\* StateStore.Delete
StateStoreDelete(m, state) == MapDelete(m, state)

(***************************************************************************)
(* Authorization Endpoint.                                                 *)
(***************************************************************************)
\* AuthorizationHandler.sendError
AuthzSendError(redirectURI, state, errorCode, errorDescription) ==
  IF redirectURI = ""
  THEN HttpError(StatusBadRequest, <<errorCode, errorDescription>>)
  ELSE IF ~UrlParseOK(redirectURI)
  THEN HttpError(StatusBadRequest, <<"Invalid redirect_uri">>)
  ELSE HttpRedirect(redirectURI,
         ("error" :> errorCode) @@ ("error_description" :> errorDescription)
         @@ (IF state # "" THEN "state" :> state ELSE EmptyMap))

ValidRedirectAny(client, redirectURI) == Len(client.RedirectURIs) > 0

\* AuthorizationHandler.ServeHTTP: the loop over client.Metadata.RedirectURIs
ValidRedirect(client, redirectURI) ==
  \E i \in DOMAIN client.RedirectURIs : client.RedirectURIs[i] = redirectURI

\* Config.IsScopeSupported
IsScopeSupported(s) == s \in ScopesSupported

EffectiveScopeAsGiven(req) == req.scope

\* AuthorizationHandler.ServeHTTP: the scope in force
EffectiveScope(req) == IF req.scope = <<>> THEN DefaultScope ELSE req.scope

\* the first requested scope that is not supported, 0 when all are
FirstUnsupported(scope) ==
  IF \A i \in DOMAIN scope : IsScopeSupported(scope[i]) THEN 0
  ELSE CHOOSE i \in DOMAIN scope :
         /\ ~IsScopeSupported(scope[i])
         /\ \A j \in 1..(i - 1) : IsScopeSupported(scope[j])

PassResponse == [kind |-> "pass"]

\* AuthorizationHandler.ServeHTTP: response_type, client_id, redirect_uri
ClientGates(req) ==
  IF req.response_type # "code"
  THEN AuthzSendError(req.redirect_uri, req.state, "unsupported_response_type",
                      "Only 'code' response type is supported")
  ELSE IF req.client_id = ""
  THEN AuthzSendError(req.redirect_uri, req.state, "invalid_request",
                      "client_id is required")
  ELSE IF ~ClientExists(req.client_id)
  THEN AuthzSendError(req.redirect_uri, req.state, "invalid_client",
                      "Unknown client_id")
  ELSE IF req.redirect_uri = ""
  THEN AuthzSendError(req.redirect_uri, req.state, "invalid_request",
                      "redirect_uri is required")
  ELSE IF ~ValidRedirect(clients[req.client_id], req.redirect_uri)
  THEN AuthzSendError("", req.state, "invalid_request",
                      "redirect_uri not registered for this client")
  ELSE PassResponse

PKCEGatesPublicOnly(req) ==
  IF clients[req.client_id].ClientSecret # ""
  THEN PassResponse
  ELSE IF req.code_challenge = "" \/ req.code_challenge_method # "S256"
  THEN AuthzSendError(req.redirect_uri, req.state, "invalid_request",
                      "code_challenge is required (PKCE)")
  ELSE PassResponse

\* AuthorizationHandler.ServeHTTP: code_challenge, code_challenge_method
PKCEGates(req) ==
  IF req.code_challenge = ""
  THEN AuthzSendError(req.redirect_uri, req.state, "invalid_request",
                      "code_challenge is required (PKCE)")
  ELSE IF req.code_challenge_method # "S256"
  THEN AuthzSendError(req.redirect_uri, req.state, "invalid_request",
                      "code_challenge_method must be S256")
  ELSE PassResponse

\* AuthorizationHandler.ServeHTTP: scope
ScopeGate(req) ==
  IF FirstUnsupported(EffectiveScope(req)) # 0
  THEN AuthzSendError(req.redirect_uri, req.state, "invalid_scope",
                      "Scope is not supported")
  ELSE PassResponse

\* AuthorizationHandler.ServeHTTP, the validation gates in order: the error
\* response of the first gate that fails, PassResponse when all pass.
AuthorizeGates(req) ==
  IF ClientGates(req) # PassResponse THEN ClientGates(req)
  ELSE IF PKCEGates(req) # PassResponse THEN PKCEGates(req)
  ELSE ScopeGate(req)

\* AuthorizationHandler.ServeHTTP: the AuthState stored for a request
NewAuthState(req, t) ==
  [ ClientID |-> req.client_id,
    RedirectURI |-> req.redirect_uri,
    Scope |-> EffectiveScope(req),
    State |-> req.state,
    CodeChallenge |-> req.code_challenge,
    CodeChallengeMethod |-> req.code_challenge_method,
    Resource |-> req.resource,
    CreatedAt |-> t ]

\* AuthorizationHandler.ServeHTTP: the redirect to GitHub
GitHubRedirect(internalState) ==
  HttpRedirect(config.GitHubAuthURL,
    [ client_id |-> config.GitHubClientID,
      redirect_uri |-> config.ServerURL \o "/oauth/callback",
      scope |-> "read:user",
      state |-> internalState ])

\* The handler of slot p has written its response.
Respond(p, ep, req, resp) ==
  /\ pc' = [pc EXCEPT ![p] = "done"]
  /\ loc' = [loc EXCEPT ![p] = [ep |-> ep, req |-> req, resp |-> resp]]

\* AuthorizationHandler.ServeHTTP.  randOK: crypto/rand delivered.
Authorize(p, req, randOK) ==
  LET gate == AuthorizeGates(req)
      internalState == StateTokens[minted.state + 1]
  IN
  /\ pc[p] = "idle"
  /\ IF gate # PassResponse
     THEN /\ Respond(p, "authorize", req, gate)
          /\ UNCHANGED <<states, minted>>
     ELSE IF ~randOK
     THEN /\ Respond(p, "authorize", req,
                     AuthzSendError(req.redirect_uri, req.state,
                                    "server_error", "Failed to generate state"))
          /\ UNCHANGED <<states, minted>>
     ELSE /\ minted' = [minted EXCEPT !.state = @ + 1]
          /\ states' = StateStoreStore(states, internalState,
                                       NewAuthState(req, now), now)
          /\ Respond(p, "authorize", req,
               IF UrlParseOK(config.GitHubAuthURL)
               THEN GitHubRedirect(internalState)
               ELSE AuthzSendError(req.redirect_uri, req.state, "server_error",
                      "Invalid authorization server configuration"))
  /\ UNCHANGED <<storedArr, held, legacyVars>>
  /\ UNCHANGED <<tokenCache, config, now, clients, authCodes, accessTokens, codeLog>>

\* The response of slot p has been sent; the slot serves the next request.
Return(p) ==
  /\ pc[p] = "done"
  /\ pc' = [pc EXCEPT ![p] = "idle"]
  /\ loc' = [loc EXCEPT ![p] = NoStep]
  /\ UNCHANGED <<storedArr, held, legacyVars>>
  /\ UNCHANGED <<tokenCache, config, now, clients, states, authCodes, accessTokens,
                 minted, codeLog>>

\* No other request is being served.
Alone(p) == \A q \in Procs \ {p} : pc[q] = "idle"

(***************************************************************************)
(* StateStore.Store statement by statement.  The store has no lock, so a   *)
(* request served on another goroutine runs between the insert and the     *)
(* sweep; a map access that overlaps a write is a data race, which the Go  *)
(* runtime may end with "fatal error: concurrent map read and map write".  *)
(***************************************************************************)
\* Slot p is inside StateStore.Store, after s.states[state] = authState
InStore(p) == pc[p] = "store_sweep"

\* AuthorizationHandler.ServeHTTP up to s.states[state] = authState
AuthorizeInsert(p, req) ==
  LET internalState == StateTokens[minted.state + 1] IN
  /\ pc[p] = "idle"
  /\ AuthorizeGates(req) = PassResponse
  /\ minted' = [minted EXCEPT !.state = @ + 1]
  /\ states' = MapPut(states, internalState, NewAuthState(req, now))
  /\ pc' = [pc EXCEPT ![p] = "store_sweep"]
  /\ loc' = [loc EXCEPT ![p] =
               [ep |-> "authorize", req |-> req, internalState |-> internalState]]
  /\ UNCHANGED <<storedArr, held, legacyVars>>
  /\ UNCHANGED <<tokenCache, config, now, clients, authCodes, accessTokens, codeLog>>

\* AuthorizationHandler.ServeHTTP from the loop of StateStore.Store on
AuthorizeSweep(p) ==
  /\ InStore(p)
  /\ states' = StateStoreSweep(states, now)
  /\ Respond(p, "authorize", loc[p].req,
       IF UrlParseOK(config.GitHubAuthURL)
       THEN GitHubRedirect(loc[p].internalState)
       ELSE AuthzSendError(loc[p].req.redirect_uri, loc[p].req.state,
              "server_error", "Invalid authorization server configuration"))
  /\ UNCHANGED <<storedArr, held, legacyVars>>
  /\ UNCHANGED <<tokenCache, config, now, clients, authCodes, accessTokens,
                 minted, codeLog>>

\* The runtime detects a map access of slot p that overlaps a write of
\* another slot and kills the process.
FatalConcurrentMapAccess(p) ==
  /\ pc[p] \in {"idle", "store_sweep", "cb_delete"}
  /\ \E q \in Procs \ {p} : InStore(q)
  /\ pc' = [q \in Procs |-> "fatal"]
  /\ UNCHANGED loc
  /\ UNCHANGED <<storedArr, held, legacyVars>>
  /\ UNCHANGED <<tokenCache, config, now, clients, states, authCodes,
                 accessTokens, minted, codeLog>>

(***************************************************************************)
(* AuthorizationCode / AccessToken store.                                  *)
(***************************************************************************)

\* StoreAuthCode / StoreAccessToken, the loop: delete the entries whose
\* ExpiresAt is before now
TokenStorageSweep(m, t) ==
  MapKeep(m, {k \in DOMAIN m : ~(m[k].ExpiresAt < t)})

\* InMemoryTokenStorage.StoreAuthCode
StoreAuthCode(m, code, authInfo, t) ==
  TokenStorageSweep(MapPut(m, code, authInfo), t)

\* InMemoryTokenStorage.GetAuthCode: err == nil
GetAuthCodeOK(m, code, t) ==
  code \in DOMAIN m /\ ~(t > m[code].ExpiresAt)

\* InMemoryTokenStorage.GetAuthCode: the map it leaves (an expired entry
\* is deleted)
GetAuthCodeMap(m, code, t) ==
  IF code \in DOMAIN m /\ t > m[code].ExpiresAt THEN MapDelete(m, code) ELSE m

DeleteAuthCodeNoop(m, code) == m

\* InMemoryTokenStorage.DeleteAuthCode
DeleteAuthCode(m, code) == MapDelete(m, code)

\* InMemoryTokenStorage.StoreAccessToken
StoreAccessToken(m, token, tokenInfo, t) ==
  TokenStorageSweep(MapPut(m, token, tokenInfo), t)

GetAccessTokenIgnoreExpiry(m, token, t) == token \in DOMAIN m

\* InMemoryTokenStorage.GetAccessToken: err == nil
GetAccessTokenOK(m, token, t) ==
  token \in DOMAIN m /\ ~(t > m[token].ExpiresAt)

\* InMemoryTokenStorage.GetAccessToken: the map it leaves
GetAccessTokenMap(m, token, t) ==
  IF token \in DOMAIN m /\ t > m[token].ExpiresAt THEN MapDelete(m, token) ELSE m

(***************************************************************************)
(* Callback Handler.                                                       *)
(***************************************************************************)
SendErrorRedirectDirect(authState, errorCode, errorDescription) ==
  HttpError(StatusBadRequest, <<errorCode, errorDescription>>)

\* CallbackHandler.sendErrorRedirect
SendErrorRedirect(authState, errorCode, errorDescription) ==
  IF ~UrlParseOK(authState.RedirectURI)
  THEN HttpError(StatusBadRequest, <<"Invalid redirect URI">>)
  ELSE HttpRedirect(authState.RedirectURI,
         ("error" :> errorCode) @@ ("error_description" :> errorDescription)
         @@ (IF authState.State # "" THEN "state" :> authState.State
             ELSE EmptyMap))

NewAuthCodeInfoNoResource(authState, githubToken, t) ==
  [ ClientID |-> authState.ClientID,
    RedirectURI |-> authState.RedirectURI,
    Scope |-> authState.Scope,
    CodeChallenge |-> authState.CodeChallenge,
    CodeChallengeMethod |-> authState.CodeChallengeMethod,
    Resource |-> "",
    GitHubAccessToken |-> githubToken,
    ExpiresAt |-> t + AuthCodeTTL,
    CreatedAt |-> t ]

\* CallbackHandler.ServeHTTP: the AuthCodeInfo stored
NewAuthCodeInfo(authState, githubToken, t) ==
  [ ClientID |-> authState.ClientID,
    RedirectURI |-> authState.RedirectURI,
    Scope |-> authState.Scope,
    CodeChallenge |-> authState.CodeChallenge,
    CodeChallengeMethod |-> authState.CodeChallengeMethod,
    Resource |-> authState.Resource,
    GitHubAccessToken |-> githubToken,
    ExpiresAt |-> t + AuthCodeTTL,
    CreatedAt |-> t ]

\* CallbackHandler.ServeHTTP up to and including stateStore.Get
CallbackBegin(p, req) ==
  /\ pc[p] = "idle"
  /\ IF req.error # ""
     THEN Respond(p, "callback", req,
            HttpError(StatusBadRequest, <<"Authorization error", req.error>>))
     ELSE IF req.code = ""
     THEN Respond(p, "callback", req,
            HttpError(StatusBadRequest, <<"No authorization code received">>))
     ELSE IF ~StateStoreHas(states, req.state)
     THEN Respond(p, "callback", req,
            HttpError(StatusBadRequest, <<"Invalid or expired state parameter">>))
     ELSE /\ pc' = [pc EXCEPT ![p] = "cb_exchange"]
          /\ loc' = [loc EXCEPT ![p] =
                       [ep |-> "callback", req |-> req,
                        authState |-> states[req.state]]]
  /\ UNCHANGED <<storedArr, held, legacyVars>>
  /\ UNCHANGED <<tokenCache, config, now, clients, states, authCodes, accessTokens,
                 minted, codeLog>>

\* CallbackHandler.ServeHTTP from exchangeGitHubCode to StoreAuthCode.
\* githubToken: what the exchange returned, "" when it failed.
CallbackExchange(p, githubToken, randOK) ==
  LET authState == loc[p].authState
      ourAuthCode == AuthCodes[minted.code + 1]
      authCodeInfo == NewAuthCodeInfo(authState, githubToken, now)
  IN
  /\ pc[p] = "cb_exchange"
  /\ IF githubToken = ""
     THEN /\ Respond(p, "callback", loc[p].req,
                     SendErrorRedirect(authState, "server_error",
                                       "Failed to obtain access token"))
          /\ UNCHANGED <<authCodes, minted, codeLog>>
     ELSE IF ~randOK
     THEN /\ Respond(p, "callback", loc[p].req,
                     SendErrorRedirect(authState, "server_error",
                                       "Failed to generate authorization code"))
          /\ UNCHANGED <<authCodes, minted, codeLog>>
     ELSE /\ minted' = [minted EXCEPT !.code = @ + 1]
          /\ authCodes' = StoreAuthCode(authCodes, ourAuthCode, authCodeInfo, now)
          /\ codeLog' = MapPut(codeLog, ourAuthCode,
                               [info |-> authCodeInfo, state |-> loc[p].req.state,
                                accepted |-> 0, issued |-> 0,
                                pkceRefused |-> FALSE])
          /\ pc' = [pc EXCEPT ![p] = "cb_delete"]
          /\ loc' = [loc EXCEPT ![p] =
                       [ep |-> "callback", req |-> loc[p].req,
                        authState |-> authState, githubToken |-> githubToken,
                        ourAuthCode |-> ourAuthCode]]
  /\ UNCHANGED <<storedArr, held, legacyVars>>
  /\ UNCHANGED <<tokenCache, config, now, clients, states, accessTokens>>

CodeRedirectEchoState(req, authState, ourAuthCode) ==
  HttpRedirect(authState.RedirectURI,
    ("code" :> ourAuthCode) @@ ("state" :> req.state))

\* CallbackHandler.ServeHTTP: the redirect back to the client of request req
CodeRedirect(req, authState, ourAuthCode) ==
  IF ~UrlParseOK(authState.RedirectURI)
  THEN HttpError(StatusBadRequest, <<"Invalid redirect URI">>)
  ELSE HttpRedirect(authState.RedirectURI,
         ("code" :> ourAuthCode)
         @@ (IF authState.State # "" THEN "state" :> authState.State
             ELSE EmptyMap))

\* CallbackHandler.ServeHTTP from stateStore.Delete to the redirect
CallbackFinish(p) ==
  LET authState == loc[p].authState IN
  /\ pc[p] = "cb_delete"
  /\ states' = StateStoreDelete(states, loc[p].req.state)
  /\ Respond(p, "callback", loc[p].req,
             CodeRedirect(loc[p].req, authState, loc[p].ourAuthCode))
  /\ UNCHANGED <<storedArr, held, legacyVars>>
  /\ UNCHANGED <<tokenCache, config, now, clients, authCodes, accessTokens, minted, codeLog>>

(***************************************************************************)
(* Token Endpoint.                                                         *)
(***************************************************************************)
\* TokenEndpointHandler.sendError
TokenSendError(errorCode, errorDescription, statusCode) ==
  HttpJSON(statusCode,
    [error |-> errorCode, error_description |-> errorDescription])

\* hashSecret: base64(sha256(secret))
hashSecret(secret) == "hash(" \o secret \o ")"

\* InMemoryClientStorage.ValidateClientSecret, for a client in the store
ValidateClientSecret(clientID, secret) ==
  clients[clientID].ClientSecret = hashSecret(secret)

TokenFormGatesWithSecret(req) ==
  IF req.grant_type # "authorization_code"
  THEN TokenSendError("unsupported_grant_type",
         "Only authorization_code grant type is supported", StatusBadRequest)
  ELSE IF "" \in {req.code, req.client_id, req.code_verifier, req.redirect_uri}
  THEN TokenSendError("invalid_request", "parameter is required",
                      StatusBadRequest)
  ELSE IF /\ req.client_id \in DOMAIN clients
          /\ clients[req.client_id].ClientSecret # ""
          /\ ~ValidateClientSecret(req.client_id, req.client_secret)
  THEN TokenSendError("invalid_client", "Client authentication failed",
                      StatusUnauthorized)
  ELSE PassResponse

TokenFormGatesGrantOnly(req) ==
  IF req.grant_type # "authorization_code"
  THEN TokenSendError("unsupported_grant_type",
         "Only authorization_code grant type is supported", StatusBadRequest)
  ELSE PassResponse

\* TokenEndpointHandler.ServeHTTP: the checks on the form fields alone
TokenFormGates(req) ==
  IF req.grant_type # "authorization_code"
  THEN TokenSendError("unsupported_grant_type",
         "Only authorization_code grant type is supported", StatusBadRequest)
  ELSE IF req.code = ""
  THEN TokenSendError("invalid_request", "code is required", StatusBadRequest)
  ELSE IF req.client_id = ""
  THEN TokenSendError("invalid_request", "client_id is required",
                      StatusBadRequest)
  ELSE IF req.code_verifier = ""
  THEN TokenSendError("invalid_request", "code_verifier is required (PKCE)",
                      StatusBadRequest)
  ELSE IF req.redirect_uri = ""
  THEN TokenSendError("invalid_request", "redirect_uri is required",
                      StatusBadRequest)
  ELSE PassResponse

TokenCodeGatesNoRedirect(req, authCodeInfo) ==
  IF authCodeInfo.ClientID # req.client_id
  THEN TokenSendError("invalid_grant", "client_id mismatch", StatusBadRequest)
  ELSE IF ~verifyPKCE(req.code_verifier, authCodeInfo.CodeChallenge,
                      authCodeInfo.CodeChallengeMethod)
  THEN TokenSendError("invalid_grant", "PKCE verification failed",
                      StatusBadRequest)
  ELSE PassResponse

\* TokenEndpointHandler.ServeHTTP: the checks against the stored code
TokenCodeGates(req, authCodeInfo) ==
  IF authCodeInfo.ClientID # req.client_id
  THEN TokenSendError("invalid_grant", "client_id mismatch", StatusBadRequest)
  ELSE IF authCodeInfo.RedirectURI # req.redirect_uri
  THEN TokenSendError("invalid_grant", "redirect_uri mismatch",
                      StatusBadRequest)
  ELSE IF ~verifyPKCE(req.code_verifier, authCodeInfo.CodeChallenge,
                      authCodeInfo.CodeChallengeMethod)
  THEN TokenSendError("invalid_grant", "PKCE verification failed",
                      StatusBadRequest)
  ELSE PassResponse

\* TokenEndpointHandler.ServeHTTP up to and including verifyPKCE
TokenBegin(p, req) ==
  /\ pc[p] = "idle"
  /\ IF TokenFormGates(req) # PassResponse
     THEN /\ Respond(p, "token", req, TokenFormGates(req))
          /\ UNCHANGED <<authCodes, codeLog>>
     ELSE IF ~ClientExists(req.client_id)
     THEN /\ Respond(p, "token", req,
                     TokenSendError("invalid_client", "Unknown client_id",
                                    StatusUnauthorized))
          /\ UNCHANGED <<authCodes, codeLog>>
     ELSE IF ~GetAuthCodeOK(authCodes, req.code, now)
     THEN /\ Respond(p, "token", req,
                     TokenSendError("invalid_grant",
                       "Invalid or expired authorization code", StatusBadRequest))
          /\ authCodes' = GetAuthCodeMap(authCodes, req.code, now)
          /\ UNCHANGED codeLog
     ELSE IF TokenCodeGates(req, authCodes[req.code]) # PassResponse
     THEN /\ Respond(p, "token", req, TokenCodeGates(req, authCodes[req.code]))
          /\ codeLog' =
               [codeLog EXCEPT ![req.code].pkceRefused =
                  @ \/ ( /\ authCodes[req.code].ClientID = req.client_id
                         /\ authCodes[req.code].RedirectURI = req.redirect_uri )]
          /\ UNCHANGED authCodes
     ELSE /\ pc' = [pc EXCEPT ![p] = "tk_delete"]
          /\ loc' = [loc EXCEPT ![p] =
                       [ep |-> "token", req |-> req,
                        authCodeInfo |-> authCodes[req.code]]]
          /\ codeLog' = [codeLog EXCEPT ![req.code].accepted = @ + 1]
          /\ UNCHANGED authCodes
  /\ UNCHANGED <<storedArr, held, legacyVars>>
  /\ UNCHANGED <<tokenCache, config, now, clients, states, accessTokens, minted>>

\* TokenEndpointHandler.ServeHTTP: tokenStorage.DeleteAuthCode
TokenDelete(p) ==
  /\ pc[p] = "tk_delete"
  /\ authCodes' = DeleteAuthCode(authCodes, loc[p].req.code)
  /\ pc' = [pc EXCEPT ![p] = "tk_issue"]
  /\ UNCHANGED <<storedArr, held, legacyVars>>
  /\ UNCHANGED <<tokenCache, config, now, clients, states, accessTokens, minted, loc,
                 codeLog>>

\* TokenEndpointHandler.ServeHTTP: the AccessTokenInfo stored
NewAccessTokenInfo(req, authCodeInfo, t) ==
  [ ClientID |-> req.client_id,
    Scope |-> authCodeInfo.Scope,
    Resource |-> authCodeInfo.Resource,
    GitHubAccessToken |-> authCodeInfo.GitHubAccessToken,
    ExpiresAt |-> t + config.TokenExpiryDuration,
    CreatedAt |-> t ]

TokenResponseAlwaysResource(accessToken, authCodeInfo) ==
  HttpJSON(StatusOK,
    ("access_token" :> accessToken) @@ ("token_type" :> "Bearer")
    @@ ("expires_in" :> config.TokenExpiryDuration * 60)
    @@ ("scope" :> authCodeInfo.Scope)
    @@ ("resource" :> authCodeInfo.Resource))

\* TokenEndpointHandler.ServeHTTP: the token response
TokenResponse(accessToken, authCodeInfo) ==
  HttpJSON(StatusOK,
    ("access_token" :> accessToken) @@ ("token_type" :> "Bearer")
    @@ ("expires_in" :> config.TokenExpiryDuration * 60)
    @@ ("scope" :> authCodeInfo.Scope)
    @@ (IF authCodeInfo.Resource # "" THEN "resource" :> authCodeInfo.Resource
        ELSE EmptyMap))

\* TokenEndpointHandler.ServeHTTP from generateRandomString to the response
TokenIssue(p, randOK) ==
  LET accessToken == AccessTokens[minted.token + 1]
      authCodeInfo == loc[p].authCodeInfo
  IN
  /\ pc[p] = "tk_issue"
  /\ IF ~randOK
     THEN /\ Respond(p, "token", loc[p].req,
                     TokenSendError("server_error",
                       "Failed to generate access token",
                       StatusInternalServerError))
          /\ UNCHANGED <<accessTokens, minted, codeLog>>
     ELSE /\ minted' = [minted EXCEPT !.token = @ + 1]
          /\ accessTokens' =
               StoreAccessToken(accessTokens, accessToken,
                 NewAccessTokenInfo(loc[p].req, authCodeInfo, now), now)
          /\ codeLog' = [codeLog EXCEPT ![loc[p].req.code].issued = @ + 1]
          /\ Respond(p, "token", loc[p].req,
                     TokenResponse(accessToken, authCodeInfo))
  /\ UNCHANGED <<storedArr, held, legacyVars>>
  /\ UNCHANGED <<tokenCache, config, now, clients, states, authCodes>>

(***************************************************************************)
(* Token-validation cache.                                                 *)
(***************************************************************************)
\* GitHubTokenVerifier.Verify: cacheKey := "github:" + GitHubAccessToken
CacheKey(githubToken) == <<"github:", githubToken>>

TokenCacheSetPositiveOnly(m, token, result, expiry, t) ==
  IF result.Valid
  THEN MapPut(m, token, [result |-> result, expiresAt |-> t + expiry])
  ELSE m

\* InMemoryTokenCache.Set
TokenCacheSet(m, token, result, expiry, t) ==
  MapPut(m, token, [result |-> result, expiresAt |-> t + expiry])

TokenCacheFoundStale(m, token, t) == token \in DOMAIN m

\* InMemoryTokenCache.Get: found
TokenCacheFound(m, token, t) ==
  token \in DOMAIN m /\ ~(t > m[token].expiresAt)

\* InMemoryTokenCache.cleanupExpired, one tick of its ticker
TokenCacheCleanup(m, t) ==
  MapKeep(m, {k \in DOMAIN m : ~(t > m[k].expiresAt)})

\* A tick of the ticker that finds nothing expired changes nothing.
CleanupExpired ==
  /\ tokenCache' = TokenCacheCleanup(tokenCache, now)
  /\ tokenCache' # tokenCache
  /\ UNCHANGED <<storedArr, held, legacyVars>>
  /\ UNCHANGED <<config, now, clients, states, authCodes, accessTokens,
                 minted, pc, loc, codeLog>>

(***************************************************************************)
(* Protected MCP endpoint.                                                 *)
(***************************************************************************)
\* validateWithGitHub: the results the call to the provider can have
ValidationResults ==
  { [Valid |-> TRUE, Subject |-> "octocat", Error |-> ""],
    [Valid |-> FALSE, Subject |-> "",
     Error |-> "GitHub API returned status 401"] }

\* GitHubTokenVerifier.Verify: what it returns.  calls: the calls it made
\* to the provider.
VerifyOK(tokenInfo, result, calls) ==
  [ ok |-> TRUE, Scopes |-> tokenInfo.Scope, Expiration |-> tokenInfo.ExpiresAt,
    subject |-> result.Subject, client_id |-> tokenInfo.ClientID,
    err |-> "", calls |-> calls ]

VerifyErr(err, calls) ==
  [ ok |-> FALSE, Scopes |-> <<>>, Expiration |-> 0, subject |-> "",
    client_id |-> "", err |-> err, calls |-> calls ]

NoVerify == VerifyErr("not called", 0)

\* The MCP handler serves the request.
McpHandled == [ kind |-> "handler", status |-> StatusOK, location |-> "",
                query |-> EmptyMap, body |-> <<>> ]

\* auth.RequireBearerToken after the verifier returned: the scope and
\* expiration checks, then the wrapped handler
AfterVerify(verified, scopes, t) ==
  IF ~verified.ok
  THEN HttpError(StatusUnauthorized, <<"invalid token">>)
  ELSE IF \E i \in 1..Len(scopes) :
            \A j \in 1..Len(verified.Scopes) : verified.Scopes[j] # scopes[i]
  THEN HttpError(StatusForbidden, <<"insufficient scope">>)
  ELSE IF verified.Expiration < t
  THEN HttpError(StatusUnauthorized, <<"token expired">>)
  ELSE McpHandled

\* The locals and the response of an MCP request that has been answered.
McpRespond(p, req, verified, resp) ==
  /\ pc' = [pc EXCEPT ![p] = "done"]
  /\ loc' = [loc EXCEPT ![p] =
               [ep |-> "mcp", req |-> req, resp |-> resp, verify |-> verified]]

\* main: middleware.RequireAuth([]string{"mcp:tools"})
RequiredScopes == <<"mcp:tools">>

\* authenticatedHandler and Middleware.RequireAuth up to the cache lookup of
\* GitHubTokenVerifier.Verify
McpBegin(p, req) ==
  /\ pc[p] = "idle"
  /\ IF req.method = "GET" /\ req.sessionID # ""
     THEN /\ McpRespond(p, req, NoVerify, McpHandled)
          /\ UNCHANGED accessTokens
     ELSE IF req.method = "GET"
     THEN /\ McpRespond(p, req, NoVerify, McpHandled)
          /\ UNCHANGED accessTokens
     ELSE IF req.bearer = ""
     THEN /\ McpRespond(p, req, NoVerify,
                        HttpError(StatusUnauthorized, <<"no bearer token">>))
          /\ UNCHANGED accessTokens
     ELSE IF ~GetAccessTokenOK(accessTokens, req.bearer, now)
     THEN /\ McpRespond(p, req, VerifyErr("token not found or expired", 0),
                        AfterVerify(VerifyErr("token not found or expired", 0),
                                    RequiredScopes, now))
          /\ accessTokens' = GetAccessTokenMap(accessTokens, req.bearer, now)
     ELSE LET tokenInfo == accessTokens[req.bearer]
              cacheKey == CacheKey(tokenInfo.GitHubAccessToken)
              cached == tokenCache[cacheKey].result
              verified == IF cached.Valid THEN VerifyOK(tokenInfo, cached, 0)
                          ELSE VerifyErr(cached.Error, 0)
          IN
          /\ IF TokenCacheFound(tokenCache, cacheKey, now)
             THEN McpRespond(p, req, verified,
                             AfterVerify(verified, RequiredScopes, now))
             ELSE /\ pc' = [pc EXCEPT ![p] = "mcp_validate"]
                  /\ loc' = [loc EXCEPT ![p] =
                               [ep |-> "mcp", req |-> req,
                                tokenInfo |-> tokenInfo]]
          /\ UNCHANGED accessTokens
  /\ UNCHANGED <<storedArr, held, legacyVars>>
  /\ UNCHANGED <<tokenCache, config, now, clients, states, authCodes, minted,
                 codeLog>>

\* GitHubTokenVerifier.Verify from validateWithGitHub on, then the rest of
\* the middleware.  result: what the provider answered.
McpValidate(p, result) ==
  LET tokenInfo == loc[p].tokenInfo
      verified == IF result.Valid THEN VerifyOK(tokenInfo, result, 1)
                  ELSE VerifyErr(result.Error, 1)
  IN
  /\ pc[p] = "mcp_validate"
  /\ tokenCache' =
       TokenCacheSet(tokenCache, CacheKey(tokenInfo.GitHubAccessToken), result,
                     config.TokenExpiryDuration, now)
  /\ McpRespond(p, loc[p].req, verified,
                AfterVerify(verified, RequiredScopes, now))
  /\ UNCHANGED <<storedArr, held, legacyVars>>
  /\ UNCHANGED <<config, now, clients, states, authCodes, accessTokens,
                 minted, codeLog>>

(***************************************************************************)
(* Dynamic Client Registration.                                            *)
(***************************************************************************)
\* GenerateClientID, GenerateClientSecret: what they return, in order
ClientIDs == << "cid1", "cid2", "cid3", "cid4" >>
ClientSecrets == << "sec2", "sec3", "sec4", "sec5" >>

\* The clients registered through the endpoint so far.
Registered == {i \in 1..Len(ClientIDs) : ClientIDs[i] \in DOMAIN clients}

\* RegistrationHandler.sendError
RegistrationSendError(errorCode, description, statusCode) ==
  HttpJSON(statusCode,
    [error |-> errorCode, error_description |-> description])

\* validateRequest: validGrantTypes, validResponseTypes, validMethods
ValidGrantTypes ==
  {"authorization_code", "implicit", "password", "client_credentials",
   "refresh_token"}
ValidResponseTypes == {"code", "token"}
ValidMethods == {"none", "client_secret_post", "client_secret_basic"}

validateRequestSkipsTypes(req) ==
  IF Len(req.redirect_uris) = 0
  THEN "at least one redirect_uri is required"
  ELSE IF \E i \in 1..Len(req.redirect_uris) : req.redirect_uris[i] = ""
  THEN "redirect_uri cannot be empty"
  ELSE IF req.token_endpoint_auth_method # ""
          /\ req.token_endpoint_auth_method \notin ValidMethods
  THEN "invalid token_endpoint_auth_method"
  ELSE IF req.token_endpoint_auth_method = "none"
          /\ ~config.AllowPublicClients
  THEN "public clients are not allowed"
  ELSE ""

\* RegistrationHandler.validateRequest: err, "" when nil
validateRequest(req) ==
  IF Len(req.redirect_uris) = 0
  THEN "at least one redirect_uri is required"
  ELSE IF \E i \in 1..Len(req.redirect_uris) : req.redirect_uris[i] = ""
  THEN "redirect_uri cannot be empty"
  ELSE IF \E i \in 1..Len(req.grant_types) :
            req.grant_types[i] \notin ValidGrantTypes
  THEN "invalid grant_type"
  ELSE IF \E i \in 1..Len(req.response_types) :
            req.response_types[i] \notin ValidResponseTypes
  THEN "invalid response_type"
  ELSE IF req.token_endpoint_auth_method # ""
          /\ req.token_endpoint_auth_method
               \notin {"none", "client_secret_post", "client_secret_basic"}
  THEN "invalid token_endpoint_auth_method"
  ELSE IF req.token_endpoint_auth_method = "none"
          /\ ~config.AllowPublicClients
  THEN "public clients are not allowed"
  ELSE ""

\* RegistrationHandler.ServeHTTP: the method that decides whether a secret
\* is generated, read before applyDefaults runs
SecretDecidedBy(req) == req.token_endpoint_auth_method

\* RegistrationHandler.applyDefaults: token_endpoint_auth_method
applyDefaults(req) ==
  IF req.token_endpoint_auth_method # "" THEN req.token_endpoint_auth_method
  ELSE IF config.AllowPublicClients THEN "none"
  ELSE "client_secret_basic"

\* RegistrationHandler.ServeHTTP: the 201 response
RegistrationResponse(clientID, clientSecret, method) ==
  HttpJSON(StatusCreated,
    ("client_id" :> clientID) @@ ("token_endpoint_auth_method" :> method)
    @@ (IF clientSecret # "" THEN "client_secret" :> clientSecret
        ELSE EmptyMap))

\* RegistrationHandler.ServeHTTP.  idOK, secretOK: crypto/rand delivered.
Register(p, req, idOK, secretOK) ==
  LET n == Cardinality(Registered) + 1
      clientID == ClientIDs[n]
      confidential == SecretDecidedBy(req) # "none"
      clientSecret == IF confidential THEN ClientSecrets[n] ELSE ""
      hashedSecret == IF confidential THEN hashSecret(clientSecret) ELSE ""
      method == applyDefaults(req)
  IN
  /\ pc[p] = "idle"
  /\ IF req.method # "POST"
     THEN /\ Respond(p, "register", req,
               RegistrationSendError("invalid_request",
                 "Only POST method is allowed", StatusMethodNotAllowed))
          /\ UNCHANGED <<clients, storedArr>>
     ELSE IF ~config.EnableDCR
     THEN /\ Respond(p, "register", req,
               RegistrationSendError("invalid_request",
                 "Dynamic client registration is not enabled", StatusForbidden))
          /\ UNCHANGED <<clients, storedArr>>
     ELSE IF validateRequest(req) # ""
     THEN /\ Respond(p, "register", req,
               RegistrationSendError("invalid_client_metadata",
                 validateRequest(req), StatusBadRequest))
          /\ UNCHANGED <<clients, storedArr>>
     ELSE IF ~idOK
     THEN /\ Respond(p, "register", req,
               RegistrationSendError("server_error",
                 "Failed to generate client ID", StatusInternalServerError))
          /\ UNCHANGED <<clients, storedArr>>
     ELSE IF confidential /\ ~secretOK
     THEN /\ Respond(p, "register", req,
               RegistrationSendError("server_error",
                 "Failed to generate client secret", StatusInternalServerError))
          /\ UNCHANGED <<clients, storedArr>>
     ELSE /\ clients' = MapPut(clients, clientID,
               [ ClientSecret |-> hashedSecret,
                 RedirectURIs |-> req.redirect_uris,
                 TokenEndpointAuthMethod |-> method ])
          /\ storedArr' = MapPut(storedArr, clientID, FreshArray)
          /\ Respond(p, "register", req,
               RegistrationResponse(clientID, clientSecret, method))
  /\ UNCHANGED <<held, legacyVars, config, now, states, authCodes, accessTokens,
                 tokenCache, minted, codeLog>>

(***************************************************************************)
(* Scope mapping of the GitHub verifier.                                   *)
(***************************************************************************)
RepoReadScopes == {"repo", "public_repo", "read:repo_hook"}
RepoWriteScopes == {"workflow", "write:repo_hook", "admin:repo_hook"}
UserScopes == {"read:user", "user", "user:email"}

\* strings.TrimSpace on the fields of the X-OAuth-Scopes header
TrimSpace(field) ==
  CASE field = " " -> ""
    [] field = " repo" -> "repo"
    [] field = " gist" -> "gist"
    [] OTHER -> field

\* parseGitHubScopes; scopeHeader is given as the fields between its commas
\* (strings.Split), the empty header being << "" >>
RECURSIVE parseGitHubScopes(_)
parseGitHubScopes(scopeHeader) ==
  IF scopeHeader = << "" >> \/ scopeHeader = << >> THEN << >>
  ELSE LET trimmed == TrimSpace(Head(scopeHeader))
           rest == IF Len(scopeHeader) = 1 THEN << >>
                   ELSE parseGitHubScopes(Tail(scopeHeader))
       IN IF trimmed # "" THEN << trimmed >> \o rest ELSE rest

\* contains
contains(slice, item) == \E i \in 1..Len(slice) : slice[i] = item

\* mapGitHubScopesToMCP: the loop over githubScopes, from index i on
RECURSIVE MapLoop(_, _, _)
MapLoop(mcpScopes, githubScopes, i) ==
  IF i > Len(githubScopes) THEN mcpScopes
  ELSE LET scope == githubScopes[i]
           next ==
             IF scope \in RepoReadScopes
             THEN IF ~contains(mcpScopes, "mcp:resources")
                  THEN Append(mcpScopes, "mcp:resources") ELSE mcpScopes
             ELSE IF scope \in RepoWriteScopes
             THEN IF ~contains(mcpScopes, "mcp:tools")
                  THEN Append(mcpScopes, "mcp:tools") ELSE mcpScopes
             ELSE IF scope \in UserScopes
             THEN mcpScopes
             ELSE IF ~contains(mcpScopes, scope)
                  THEN Append(mcpScopes, scope) ELSE mcpScopes
       IN MapLoop(next, githubScopes, i + 1)

mapGitHubScopesFallbackAlways(githubScopes) ==
  LET mcpScopes == MapLoop(<< "read:user" >>, githubScopes, 1)
  IN mcpScopes \o << "mcp:tools", "mcp:resources" >>

\* mapGitHubScopesToMCP
mapGitHubScopesToMCP(githubScopes) ==
  LET mcpScopes == MapLoop(<< "read:user" >>, githubScopes, 1)
  IN IF Len(mcpScopes) = 1
     THEN mcpScopes \o << "mcp:tools", "mcp:resources" >>
     ELSE mcpScopes

\* validateWithGitHub, after GET /user answered 200: the X-OAuth-Scopes
\* header is parsed and mapped
MapScopes(p) ==
  /\ pc[p] = "map_scopes"
  /\ pc' = [pc EXCEPT ![p] = "done"]
  /\ loc' = [loc EXCEPT ![p].scopes = parseGitHubScopes(loc[p].req),
                        ![p].resp = mapGitHubScopesToMCP(parseGitHubScopes(loc[p].req))]
  /\ UNCHANGED <<storedArr, held, legacyVars, clients>>
  /\ UNCHANGED <<tokenCache, config, now, states, authCodes, accessTokens,
                 minted, codeLog>>

(***************************************************************************)
(* The bearer-token server: TokenStore, ValidateBearerToken and            *)
(* bearerTokenMiddleware.  Header values and tokens are sequences of       *)
(* characters.                                                             *)
(***************************************************************************)
\* const bearerPrefix = "Bearer "
bearerPrefix == << "B", "e", "a", "r", "e", "r", " " >>

\* authHeader[:n], authHeader[n:]
Prefix(str, n) == SubSeq(str, 1, n)
Suffix(str, n) == SubSeq(str, n + 1, Len(str))

TokenStoreExistsIgnoreExpiry(tokens, token, t) ==
  token \in DOMAIN tokens

\* TokenStore.Get: exists
TokenStoreExists(tokens, token, t) ==
  /\ token \in DOMAIN tokens
  /\ ~(t > tokens[token].ExpiresAt)

\* TokenStore.Get: (info, exists)
TokenStoreGetResult(tokens, token, t) ==
  IF TokenStoreExists(tokens, token, t)
  THEN [info |-> tokens[token], exists |-> TRUE]
  ELSE [info |-> [AccessToken |-> << >>, Username |-> "", ExpiresAt |-> 0],
        exists |-> FALSE]

ValidateBearerTokenUnconfiguredOnly(token) ==
  IF ~oauthConfig.set THEN ""
  ELSE IF token = << >> THEN "no bearer token provided"
  ELSE ""

\* ValidateBearerToken: err, "" when nil
ValidateBearerToken(token) ==
  IF ~oauthConfig.set THEN ""
  ELSE IF token = << >> THEN "no bearer token provided"
  ELSE IF ~TokenStoreGetResult(validTokens, token, now).exists
  THEN "invalid or expired token"
  ELSE ""

BearerTokenMiddlewareNoPrefixCheck(authHeader) ==
  IF authHeader = << >>
  THEN HttpError(StatusUnauthorized, << "Missing Authorization header" >>)
  ELSE LET token == Suffix(authHeader, Len(bearerPrefix))
       IN IF ValidateBearerToken(token) # ""
          THEN HttpError(StatusUnauthorized,
                 << "Invalid token: ", ValidateBearerToken(token) >>)
          ELSE McpHandled

\* bearerTokenMiddleware: what the request with this Authorization header
\* gets, McpHandled standing for next.ServeHTTP
BearerTokenMiddlewareResponse(authHeader) ==
  IF authHeader = << >>
  THEN HttpError(StatusUnauthorized, << "Missing Authorization header" >>)
  ELSE IF Len(authHeader) < Len(bearerPrefix)
          \/ Prefix(authHeader, Len(bearerPrefix)) # bearerPrefix
  THEN HttpError(StatusUnauthorized, << "Invalid Authorization header format" >>)
  ELSE LET token == Suffix(authHeader, Len(bearerPrefix))
       IN IF ValidateBearerToken(token) # ""
          THEN HttpError(StatusUnauthorized,
                 << "Invalid token: ", ValidateBearerToken(token) >>)
          ELSE McpHandled

\* InitOAuth, with GITHUB_CLIENT_ID and GITHUB_CLIENT_SECRET as given
InitOAuth(clientID, clientSecret) ==
  /\ oauthConfig' = IF clientID = "" \/ clientSecret = "" THEN oauthConfig
                    ELSE [set |-> TRUE, ClientID |-> clientID,
                          ClientSecret |-> clientSecret]
  /\ UNCHANGED <<validTokens, tokenOps, chatVars>>
  /\ UNCHANGED <<config, now, clients, storedArr, held, states, authCodes,
                 accessTokens, tokenCache, minted, pc, loc, codeLog>>

\* How many Adds validTokens has seen, counted in the history
Adds == Cardinality({token \in DOMAIN tokenOps : tokenOps[token].op = "Add"})

\* TokenStore.Add
TokenStoreAdd(token, info) ==
  /\ validTokens' = MapPut(validTokens, token, info)
  /\ tokenOps' = MapPut(tokenOps, token, [op |-> "Add", info |-> info])
  /\ UNCHANGED <<oauthConfig, chatVars>>
  /\ UNCHANGED <<config, now, clients, storedArr, held, states, authCodes,
                 accessTokens, tokenCache, minted, pc, loc, codeLog>>

\* TokenStore.Delete
TokenStoreDelete(token) ==
  /\ validTokens' = MapDelete(validTokens, token)
  /\ tokenOps' = MapPut(tokenOps, token, [op |-> "Delete"])
  /\ UNCHANGED <<oauthConfig, chatVars>>
  /\ UNCHANGED <<config, now, clients, storedArr, held, states, authCodes,
                 accessTokens, tokenCache, minted, pc, loc, codeLog>>

\* a call of TokenStore.Get
TokenStoreGet(p, token) ==
  /\ pc[p] \in {"idle", "done"}
  /\ Respond(p, "TokenStore.Get", token,
       TokenStoreGetResult(validTokens, token, now))
  /\ UNCHANGED legacyVars
  /\ UNCHANGED <<config, now, clients, storedArr, held, states, authCodes,
                 accessTokens, tokenCache, minted, codeLog>>

\* a call of ValidateBearerToken
ValidateBearerTokenCall(p, token) ==
  /\ pc[p] \in {"idle", "done"}
  /\ Respond(p, "ValidateBearerToken", token, ValidateBearerToken(token))
  /\ UNCHANGED legacyVars
  /\ UNCHANGED <<config, now, clients, storedArr, held, states, authCodes,
                 accessTokens, tokenCache, minted, codeLog>>

\* a request to a route wrapped in bearerTokenMiddleware
BearerTokenMiddleware(p, authHeader) ==
  /\ pc[p] \in {"idle", "done"}
  /\ Respond(p, "bearerTokenMiddleware", authHeader,
       BearerTokenMiddlewareResponse(authHeader))
  /\ UNCHANGED legacyVars
  /\ UNCHANGED <<config, now, clients, storedArr, held, states, authCodes,
                 accessTokens, tokenCache, minted, codeLog>>

(***************************************************************************)
(* The clock.                                                              *)
(***************************************************************************)
Tick ==
  /\ now + TickStep <= MaxTime
  /\ now' = now + TickStep
  /\ UNCHANGED <<storedArr, held, legacyVars>>
  /\ UNCHANGED <<tokenCache, config, clients, states, authCodes, accessTokens, minted,
                 pc, loc, codeLog>>

(***************************************************************************)
(* The authorization requests of the model.                                *)
(***************************************************************************)
AuthzRequests ==
  [ response_type : {"code", "token"},
    client_id : {"", "vscode", "dcr1", "nobody"},
    redirect_uri : {"", "https://vscode.dev/redirect",
                    "https://client.example/cb", "https://evil.example/cb"},
    scope : {<<>>, <<"mcp:tools">>, <<"mcp:tools", "admin">>},
    state : {"", "xyz"},
    code_challenge : {"", S256("v1")},
    code_challenge_method : {"S256", "plain"},
    resource : {""} ]

(***************************************************************************)
(* Specifications.                                                         *)
(***************************************************************************)
InitStores ==
  /\ now = 0
  /\ clients = DefaultClients @@ RegisteredClients
  /\ storedArr = ("vscode" :> 1) @@ ("dcr1" :> 2)
  /\ held = [h \in Handles |-> NoRecord]
  /\ states = EmptyMap
  /\ authCodes = EmptyMap
  /\ accessTokens = EmptyMap
  /\ tokenCache = EmptyMap
  /\ oauthConfig = NilConfig
  /\ validTokens = EmptyMap
  /\ tokenOps = EmptyMap
  /\ minted = [state |-> 0, code |-> 0, token |-> 0]
  /\ pc = [p \in Procs |-> "idle"]
  /\ loc = [p \in Procs |-> NoStep]
  /\ codeLog = EmptyMap
  /\ connections = EmptyMap
  /\ channels = EmptyMap
  /\ messages = << >>
  /\ chat = [g \in Goroutines |-> [pc |-> "idle"]]

Init ==
  /\ config \in Configs
  /\ InitStores

\* The server started with any setting of the registration switches.
InitReg ==
  /\ config \in RegistrationConfigs
  /\ InitStores

\* The requests of the whole flow: an authorization request of the vscode
\* client that passes every gate; callbacks from the provider; token
\* requests that match the minted code or differ from it in one field.
FlowAuthzRequests ==
  { [ response_type |-> "code", client_id |-> "vscode",
      redirect_uri |-> "https://vscode.dev/redirect", scope |-> <<>>,
      state |-> "xyz", code_challenge |-> S256("v1"),
      code_challenge_method |-> "S256", resource |-> "" ] }

CallbackRequests ==
  [ code : {"gh1"}, state : {StateTokens[i] : i \in 1..MaxStates},
    error : {""} ]

TokenRequests ==
  [ grant_type : {"authorization_code"},
    code : {AuthCodes[i] : i \in 1..MaxCodes},
    client_id : {"vscode", "dcr1"},
    code_verifier : {"v1", "v2"},
    redirect_uri : {"https://vscode.dev/redirect", "https://client.example/cb"} ]

\* The token requests that present a minted code with the client_id,
\* redirect_uri and code_verifier of the authorization request.
MatchingTokenRequests ==
  { req \in TokenRequests :
      /\ req.client_id = "vscode"
      /\ req.code_verifier = "v1"
      /\ req.redirect_uri = "https://vscode.dev/redirect" }

\* One step of the request served by slot p, its token requests drawn from
\* tokenRequests.
Step(p, tokenRequests) ==
  \/ \E req \in FlowAuthzRequests :
       Authorize(p, req, TRUE) /\ minted'.state <= MaxStates
  \/ \E req \in CallbackRequests : CallbackBegin(p, req)
  \/ \E githubToken \in {"", "gho_1"}, randOK \in BOOLEAN :
       CallbackExchange(p, githubToken, randOK) /\ minted'.code <= MaxCodes
  \/ CallbackFinish(p)
  \/ \E req \in tokenRequests : TokenBegin(p, req)
  \/ TokenDelete(p)
  \/ \E randOK \in BOOLEAN :
       TokenIssue(p, randOK) /\ minted'.token <= MaxTokens
  \/ Return(p)

\* Requests are served concurrently, within one reading of the clock; the
\* token requests are the matching ones.
Next == \E p \in Procs : Step(p, MatchingTokenRequests)

Spec == Init /\ [][Next]_vars

\* Requests are served one after the other, while the clock advances.
NextSeq == Tick \/ \E p \in Procs : Alone(p) /\ Step(p, TokenRequests)

SpecSeq == Init /\ [][NextSeq]_vars

\* The callbacks of the provider, with and without code and error.
FrontCallbackRequests ==
  [ code : {"", "gh1"}, state : {StateTokens[i] : i \in 1..MaxStates},
    error : {"", "access_denied"} ]

\* The Authorization Endpoint over the whole space of its requests and the
\* Callback Handler, one request after the other in slot r1.
NextFront ==
  \/ \E req \in AuthzRequests, randOK \in BOOLEAN :
       /\ Authorize("r1", req, randOK)
       /\ minted'.state <= MaxAuthzStates
  \/ \E req \in FrontCallbackRequests : CallbackBegin("r1", req)
  \/ \E githubToken \in {"", "gho_1"}, randOK \in BOOLEAN :
       CallbackExchange("r1", githubToken, randOK) /\ minted'.code <= MaxCodes
  \/ CallbackFinish("r1")
  \/ Return("r1")

SpecFront == Init /\ [][NextFront]_vars

\* The Client Store and its callers.
\* The authorization requests, and the same with a redirect_uri that
\* url.Parse refuses
GateRequests ==
  AuthzRequests
    \cup { [req EXCEPT !.redirect_uri = "://bad"] : req \in AuthzRequests }

\* The Authorization Endpoint on its own, redirect_uri values that do not
\* parse included.
NextGates ==
  \/ \E req \in GateRequests, randOK \in BOOLEAN :
       /\ Authorize("r1", req, randOK)
       /\ minted'.state <= MaxAuthzStates
  \/ Return("r1")

SpecGates == Init /\ [][NextGates]_vars

\* The token requests with every field present, absent or wrong
WideTokenRequests ==
  [ grant_type : {"authorization_code", "refresh_token"},
    code : {"", AuthCodes[1], "ac9"},
    client_id : {"", "vscode", "dcr1", "nobody"},
    code_verifier : {"", "v1", "v2"},
    redirect_uri : {"", "https://vscode.dev/redirect",
                    "https://client.example/cb"} ]

\* One flow after the other in slot r1, up to the Token Endpoint, which is
\* sent every request of WideTokenRequests; with the clock.
NextToken ==
  \/ Tick
  \/ \E req \in FlowAuthzRequests :
       Authorize("r1", req, TRUE) /\ minted'.state <= MaxAuthzStates
  \/ \E req \in CallbackRequests : CallbackBegin("r1", req)
  \/ CallbackExchange("r1", "gho_1", TRUE) /\ minted'.code <= MaxCodes
  \/ CallbackFinish("r1")
  \/ \E req \in WideTokenRequests : TokenBegin("r1", req)
  \/ TokenDelete("r1")
  \/ \E randOK \in BOOLEAN :
       TokenIssue("r1", randOK) /\ minted'.token <= MaxTokens
  \/ Return("r1")

SpecToken == Init /\ [][NextToken]_vars

\* The authorization requests of one client for response_type code with
\* method S256: any redirect_uri, scope, state and code_challenge
StoreRequests ==
  { req \in AuthzRequests :
      /\ req.response_type = "code"
      /\ req.client_id = "vscode"
      /\ req.code_challenge_method = "S256" }

\* The Authorization Endpoint on its own with the clock, up to MaxStates
\* states generated.
NextStates ==
  \/ Tick
  \/ \E req \in StoreRequests, randOK \in BOOLEAN :
       /\ Authorize("r1", req, randOK)
       /\ minted'.state <= MaxStates
  \/ Return("r1")

SpecStates == Init /\ [][NextStates]_vars

\* Concurrent requests to the Authorization Endpoint and the Callback
\* Handler, with StateStore.Store taken statement by statement.
NextRace ==
  \/ Tick
  \/ \E p \in Procs :
       \/ \E req \in FlowAuthzRequests :
            AuthorizeInsert(p, req) /\ minted'.state <= MaxStates
       \/ AuthorizeSweep(p)
       \/ \E req \in CallbackRequests : CallbackBegin(p, req)
       \/ \E githubToken \in {"", "gho_1"} :
            CallbackExchange(p, githubToken, TRUE) /\ minted'.code <= MaxCodes
       \/ CallbackFinish(p)
       \/ FatalConcurrentMapAccess(p)
       \/ Return(p)

SpecRace == Init /\ [][NextRace]_vars

\* The tokens presented to and kept by the bearer-token server
LegacyTokens == { << "t", "1" >>, << "t", "2" >> }

\* TokenInfo records for a token: expired an hour ago, expiring now, or later
LegacyInfos(token) ==
  { [AccessToken |-> token, Username |-> "testuser", ExpiresAt |-> now + d] :
      d \in {0 - TickStep, 0, TickStep} }

\* Authorization headers: absent, other schemes and spellings, "Bearer "
\* with no token, with a token
AuthorizationHeaders ==
  { << >>, << "B", "e", "a", "r", "e", "r" >>, bearerPrefix }
  \cup { bearerPrefix \o token : token \in LegacyTokens }
  \cup { << "b", "e", "a", "r", "e", "r", " " >> \o token : token \in LegacyTokens }
  \cup { << "B", "a", "s", "i", "c", " ", " " >> \o token : token \in LegacyTokens }
  \cup { << "B", "e", "a", "r", "e", "r" >> \o token : token \in LegacyTokens }

\* The bearer-token server: its store, its validation and its middleware,
\* one call at a time, slot r1 holding the last call and what it returned,
\* with the clock
NextLegacy ==
  \/ Tick
  \/ \E clientID \in {"", "test_client_id"},
        clientSecret \in {"", "test_client_secret"} :
       InitOAuth(clientID, clientSecret)
  \/ \E token \in LegacyTokens \cup {<< >>} :
       \E info \in LegacyInfos(token) :
         /\ Adds < MaxAdds
         /\ TokenStoreAdd(token, info)
  \/ \E token \in DOMAIN validTokens : TokenStoreDelete(token)
  \/ \E token \in LegacyTokens \cup {<< >>} : TokenStoreGet("r1", token)
  \/ \E token \in LegacyTokens \cup {<< >>} :
       ValidateBearerTokenCall("r1", token)
  \/ \E authHeader \in AuthorizationHeaders :
       BearerTokenMiddleware("r1", authHeader)

SpecLegacy == Init /\ [][NextLegacy]_vars

\* The fields of an X-OAuth-Scopes header
HeaderFields ==
  RepoReadScopes \cup RepoWriteScopes \cup UserScopes
    \cup {"gist", "", " ", " repo", " gist"}

\* The X-OAuth-Scopes headers of up to MaxScopes fields
ScopeHeaders ==
  UNION { [1..n -> HeaderFields] : n \in 1..MaxScopes }

\* validateWithGitHub holding the response of GET /user with any header
InitScopes ==
  /\ config \in Configs
  /\ now = 0
  /\ clients = DefaultClients @@ RegisteredClients
  /\ storedArr = ("vscode" :> 1) @@ ("dcr1" :> 2)
  /\ held = [h \in Handles |-> NoRecord]
  /\ states = EmptyMap
  /\ authCodes = EmptyMap
  /\ accessTokens = EmptyMap
  /\ tokenCache = EmptyMap
  /\ oauthConfig = NilConfig
  /\ validTokens = EmptyMap
  /\ tokenOps = EmptyMap
  /\ minted = [state |-> 0, code |-> 0, token |-> 0]
  /\ codeLog = EmptyMap
  /\ connections = EmptyMap
  /\ channels = EmptyMap
  /\ messages = << >>
  /\ chat = [g \in Goroutines |-> [pc |-> "idle"]]
  /\ pc = [p \in Procs |-> IF p = "r1" THEN "map_scopes" ELSE "idle"]
  /\ \E scopeHeader \in ScopeHeaders :
       loc = [p \in Procs |->
                IF p = "r1"
                THEN [ep |-> "validateWithGitHub", req |-> scopeHeader,
                      scopes |-> << >>, resp |-> << >>]
                ELSE NoStep]

NextScopes ==
  \/ MapScopes("r1")
  \/ Return("r1")

SpecScopes == InitScopes /\ [][NextScopes]_vars

\* The registration requests: any HTTP method, redirect_uris empty, with an
\* empty element or valid, token_endpoint_auth_method omitted, valid or not.
RegistrationRequests ==
  [ method : {"POST", "GET"},
    redirect_uris : { << >>, << "" >>,
                      << "https://client.example/cb" >>,
                      << "http://localhost:3000/cb" >> },
    grant_types : { << >>, << "authorization_code", "refresh_token" >>,
                    << "authorization_code", "device_code" >> },
    response_types : { << >>, << "code" >>, << "id_token" >> },
    token_endpoint_auth_method :
      {"", "none", "client_secret_post", "client_secret_basic", "private_key_jwt"} ]

\* The registration endpoint on its own: POST /register, one request at a
\* time, at most MaxRegistrations clients.
NextReg ==
  \/ \E req \in RegistrationRequests, idOK \in BOOLEAN, secretOK \in BOOLEAN :
       /\ Cardinality(Registered) < MaxRegistrations
       /\ Register("r1", req, idOK, secretOK)
  \/ Return("r1")

SpecReg == InitReg /\ [][NextReg]_vars

NextClients ==
  \E h \in Handles :
    \/ CallerNew(h)
    \/ CallerStore(h)
    \/ \E clientID \in DOMAIN clients : CallerGet(h, clientID)
    \/ \E clientID \in DOMAIN clients : CallerList(h, clientID)
    \/ CallerSetSecret(h, "tampered")
    \/ CallerSetURIs(h, << "https://evil.example/cb" >>)
    \/ CallerSetURIElement(h, 1, "https://evil.example/cb")
    \/ CallerDrop(h)

SpecClients == Init /\ [][NextClients]_vars

\* The requests to the protected MCP endpoint.
McpRequests ==
  [ method : {"GET", "POST"},
    sessionID : {"", "s1"},
    bearer : {"", "bogus"} \cup {AccessTokens[i] : i \in 1..MaxTokens} ]

\* The whole flow with matching requests and the protected MCP endpoint,
\* one request after the other in slot r1, while the clock advances and the
\* cache's cleanup runs.
NextRS ==
  \/ Tick
  \/ CleanupExpired
  \/ Step("r1", MatchingTokenRequests)
  \/ \E req \in McpRequests : McpBegin("r1", req)
  \/ \E result \in ValidationResults : McpValidate("r1", result)

SpecRS == Init /\ [][NextRS]_vars

\* The Authorization Endpoint alone, one request after the other, over the
\* whole space of its requests.
NextAuthz ==
  \/ \E req \in AuthzRequests, randOK \in BOOLEAN :
       /\ Authorize("r1", req, randOK)
       /\ minted'.state <= MaxAuthzStates
  \/ Return("r1")

SpecAuthz == Init /\ [][NextAuthz]_vars

(***************************************************************************)
(* Properties of the Authorization Endpoint.                               *)
(***************************************************************************)
\* The registered redirect URIs of a client, as a set.
URISet(client) == {client.RedirectURIs[i] : i \in DOMAIN client.RedirectURIs}

\* The OAuth error code a response carries, "" when it carries none.
ErrorCode(resp) ==
  IF resp.kind = "body" THEN resp.body[1]
  ELSE IF "error" \in DOMAIN resp.query THEN resp.query["error"]
  ELSE ""

\* Slot p has just answered a request of endpoint ep.
Answered(p, ep) == pc[p] = "done" /\ loc[p].ep = ep

\* The request's redirect_uri is registered for its (resolved) client.
RedirectVerified(req) ==
  /\ req.client_id \in DOMAIN clients
  /\ req.redirect_uri \in URISet(clients[req.client_id])

\* C3 (first half): a redirect of the Authorization Endpoint whose target is
\* the request's redirect_uri goes only to a redirect_uri registered for
\* the resolved client.
C3_RedirectOnlyToVerified ==
  \A p \in Procs :
    ( /\ Answered(p, "authorize")
      /\ loc[p].resp.kind = "redirect"
      /\ loc[p].resp.location = loc[p].req.redirect_uri )
    => RedirectVerified(loc[p].req)

\* C3 (second half): a failure found before the redirect_uri is matched is
\* answered with a direct error body.
C3_EarlyFailuresDirect ==
  \A p \in Procs :
    ( /\ Answered(p, "authorize")
      /\ \/ loc[p].req.response_type # "code"
         \/ ~RedirectVerified(loc[p].req) )
    => loc[p].resp.kind = "body"

\* C3: the Authorization Endpoint never redirects to a redirect_uri that
\* was not matched against the registered redirect URIs of a resolved
\* client; every failure found before that match is answered with a direct
\* HTTP error body, whatever redirect_uri the request carried.
C3_NoOpenRedirect == C3_RedirectOnlyToVerified /\ C3_EarlyFailuresDirect

\* The step is slot p answering an authorization request.
AuthzAnswers(p) ==
  pc[p] = "idle" /\ pc'[p] = "done" /\ loc'[p].ep = "authorize"

\* C9: an authorization request with response_type=code and a registered
\* client_id whose redirect_uri is none of the client's registered URIs is
\* answered with invalid_request in a direct HTTP error body, never with a
\* redirect, and creates no AuthorizationState.
C9_UnregisteredRedirectRejected ==
  [][ \A p \in Procs :
        ( /\ AuthzAnswers(p)
          /\ loc'[p].req.response_type = "code"
          /\ loc'[p].req.client_id \in DOMAIN clients
          /\ loc'[p].req.redirect_uri
               \notin URISet(clients[loc'[p].req.client_id]) )
        => /\ loc'[p].resp.kind = "body"
           /\ loc'[p].resp.status = StatusBadRequest
           /\ ErrorCode(loc'[p].resp) = "invalid_request"
           /\ states' = states ]_vars

\* C9 witness: a request for the vscode client with a redirect_uri that is
\* registered for another client only has been answered.
C9_Witness ==
  \E p \in Procs :
    /\ Answered(p, "authorize")
    /\ loc[p].req.response_type = "code"
    /\ loc[p].req.client_id = "vscode"
    /\ loc[p].req.redirect_uri = "https://client.example/cb"
    /\ loc[p].req.code_challenge # ""
    /\ loc[p].resp.kind = "body"

\* C10: an authorization request that passes the response_type, client and
\* redirect_uri gates but has no code_challenge, or a code_challenge_method
\* other than S256, is rejected with invalid_request and creates no
\* AuthorizationState, for public and confidential clients alike.
C10_PKCERequired ==
  [][ \A p \in Procs :
        ( /\ AuthzAnswers(p)
          /\ loc'[p].req.response_type = "code"
          /\ RedirectVerified(loc'[p].req)
          /\ \/ loc'[p].req.code_challenge = ""
             \/ loc'[p].req.code_challenge_method # "S256" )
        => /\ ErrorCode(loc'[p].resp) = "invalid_request"
           /\ states' = states
           /\ minted' = minted ]_vars

\* C10 witness: a confidential client's request without code_challenge has
\* been rejected.
C10_Witness ==
  \E p \in Procs :
    /\ Answered(p, "authorize")
    /\ loc[p].req.response_type = "code"
    /\ RedirectVerified(loc[p].req)
    /\ clients[loc[p].req.client_id].ClientSecret # ""
    /\ loc[p].req.code_challenge = ""
    /\ ErrorCode(loc[p].resp) = "invalid_request"

(***************************************************************************)
(* Properties of the code and state lifecycles.                            *)
(***************************************************************************)
\* The authorization codes minted from state token s.
CodesFrom(s) == {c \in DOMAIN codeLog : codeLog[c].state = s}

\* The token request presents code c with the client_id, redirect_uri and
\* code_verifier that code c was minted for.
ValidFor(req, c) ==
  /\ req.grant_type = "authorization_code"
  /\ req.code = c
  /\ c \in DOMAIN codeLog
  /\ req.client_id \in DOMAIN clients
  /\ req.client_id = codeLog[c].info.ClientID
  /\ req.redirect_uri = codeLog[c].info.RedirectURI
  /\ codeLog[c].info.CodeChallengeMethod = "S256"
  /\ S256(req.code_verifier) = codeLog[c].info.CodeChallenge

\* C1: whatever the interleaving of the Token Endpoint requests that
\* present one authorization code, at most one of them passes the checks
\* and at most one AccessToken record is created from the code.
C1_SingleRedemption ==
  \A c \in DOMAIN codeLog : codeLog[c].accepted <= 1 /\ codeLog[c].issued <= 1

\* C2: with requests served one after the other, the first valid token
\* request for an unexpired code passes the checks and, when the random
\* generator delivers, is answered 200 with a fresh access token; every
\* valid request for the code after that is answered invalid_grant.
C2_SequentialRedemption ==
  [][ \A p \in Procs :
        /\ \A c \in DOMAIN codeLog :
             ( /\ pc[p] = "idle" /\ pc'[p] # "idle"
               /\ loc'[p].ep = "token"
               /\ ValidFor(loc'[p].req, c) )
             => IF codeLog[c].accepted = 0
                THEN now <= codeLog[c].info.ExpiresAt => pc'[p] = "tk_delete"
                ELSE /\ pc'[p] = "done"
                     /\ loc'[p].resp.status = StatusBadRequest
                     /\ ErrorCode(loc'[p].resp) = "invalid_grant"
        /\ (pc[p] = "tk_issue" /\ pc'[p] = "done")
             => \/ /\ loc'[p].resp.status = StatusOK
                   /\ loc'[p].resp.query["access_token"]
                        \in DOMAIN accessTokens' \ DOMAIN accessTokens
                   /\ codeLog'[loc[p].req.code].issued = 1
                \/ /\ loc'[p].resp.status = StatusInternalServerError
                   /\ accessTokens' = accessTokens ]_vars

\* C2 witness: a valid request for a code that was redeemed before has been
\* answered invalid_grant.
C2_Witness ==
  \E p \in Procs :
    /\ Answered(p, "token")
    /\ ValidFor(loc[p].req, loc[p].req.code)
    /\ codeLog[loc[p].req.code].issued = 1
    /\ now <= codeLog[loc[p].req.code].info.ExpiresAt
    /\ ErrorCode(loc[p].resp) = "invalid_grant"

\* The checks of the Token Endpoint, all together, against the store at
\* time t.
AllChecksPass(req, t) ==
  /\ req.client_id \in DOMAIN clients
  /\ req.code \in DOMAIN authCodes
  /\ t <= authCodes[req.code].ExpiresAt
  /\ authCodes[req.code].ClientID = req.client_id
  /\ authCodes[req.code].RedirectURI = req.redirect_uri
  /\ authCodes[req.code].CodeChallengeMethod = "S256"
  /\ S256(req.code_verifier) = authCodes[req.code].CodeChallenge

\* C4: the Token Endpoint fails closed: a request goes on to issuance only
\* if it passes all the checks together, and an AccessToken record is
\* created only by a request that went on to issuance.
C4_FailClosed ==
  [][ /\ \A p \in Procs :
           /\ (pc'[p] = "tk_delete" /\ pc[p] # "tk_delete")
                => /\ pc[p] = "idle"
                   /\ AllChecksPass(loc'[p].req, now)
           /\ (pc'[p] = "tk_issue" /\ pc[p] # "tk_issue")
                => pc[p] = "tk_delete" /\ loc'[p] = loc[p]
      /\ DOMAIN accessTokens' \subseteq DOMAIN accessTokens
           \/ \E p \in Procs :
                /\ pc[p] = "tk_issue" /\ pc'[p] = "done"
                /\ loc'[p].resp.status = StatusOK ]_vars

\* C4 witness: a request that fails the redirect_uri check alone has been
\* rejected.
C4_Witness ==
  \E p \in Procs :
    /\ Answered(p, "token")
    /\ loc[p].req.code \in DOMAIN authCodes
    /\ now <= authCodes[loc[p].req.code].ExpiresAt
    /\ authCodes[loc[p].req.code].ClientID = loc[p].req.client_id
    /\ S256(loc[p].req.code_verifier) = authCodes[loc[p].req.code].CodeChallenge
    /\ authCodes[loc[p].req.code].RedirectURI # loc[p].req.redirect_uri
    /\ ErrorCode(loc[p].resp) = "invalid_grant"
    /\ accessTokens = EmptyMap

\* C5: whatever the interleaving of the Callback Handler requests that
\* carry one state token, at most one authorization code is minted from it.
C5_SingleConsumption ==
  \A s \in {codeLog[c].state : c \in DOMAIN codeLog} :
    Cardinality(CodesFrom(s)) <= 1

\* C6: with requests served one after the other, a callback that carries a
\* state from which a code was minted before is answered with the direct
\* invalid-state error, and no state yields two codes.
C6_SequentialConsumption ==
  [][ /\ \A p \in Procs :
           ( /\ pc[p] = "idle" /\ pc'[p] # "idle"
             /\ loc'[p].ep = "callback"
             /\ loc'[p].req.error = "" /\ loc'[p].req.code # ""
             /\ CodesFrom(loc'[p].req.state) # {} )
           => /\ pc'[p] = "done"
              /\ loc'[p].resp =
                   HttpError(StatusBadRequest,
                             <<"Invalid or expired state parameter">>)
              /\ codeLog' = codeLog /\ authCodes' = authCodes
      /\ \A c \in DOMAIN codeLog' \ DOMAIN codeLog :
           CodesFrom(codeLog'[c].state) = {} ]_vars

\* C6 witness: a second callback for a consumed state has been rejected.
C6_Witness ==
  \E p \in Procs :
    /\ Answered(p, "callback")
    /\ CodesFrom(loc[p].req.state) # {}
    /\ loc[p].resp.kind = "body"

\* C7: a get on an entry past its TTL reports not-found: the Callback
\* Handler resolves no state older than StateTTL, and the Token Endpoint
\* resolves no code past its ExpiresAt.
C7_ExpiredUnreadable ==
  [][ \A p \in Procs :
        /\ (pc[p] = "idle" /\ pc'[p] = "cb_exchange")
             => now <= loc'[p].authState.CreatedAt + StateTTL
        /\ (pc[p] = "idle" /\ pc'[p] = "tk_delete")
             => now <= loc'[p].authCodeInfo.ExpiresAt ]_vars

\* C8: when a store() call returns, the map it wrote holds no entry whose
\* expiry lies before the time of the call.
C8_StoreSweeps ==
  [][ /\ minted'.state # minted.state
           => \A k \in DOMAIN states' :
                ~(states'[k].CreatedAt + StateTTL < now)
      /\ minted'.code # minted.code
           => \A k \in DOMAIN authCodes' : ~(authCodes'[k].ExpiresAt < now)
      /\ minted'.token # minted.token
           => \A k \in DOMAIN accessTokens' :
                ~(accessTokens'[k].ExpiresAt < now) ]_vars

\* C8 witness: the second Store of the State Store has removed the first
\* state, which no callback had consumed.
C8_Witness ==
  /\ minted.state = 2
  /\ DOMAIN states = {StateTokens[2]}
  /\ CodesFrom(StateTokens[1]) = {}
  /\ \A p \in Procs : pc[p] # "cb_delete"

(***************************************************************************)
(* PKCE at the Token Endpoint.                                             *)
(***************************************************************************)
\* Slot p takes up a token request in this step.
TokenArrives(p) ==
  pc[p] = "idle" /\ pc'[p] # "idle" /\ loc'[p].ep = "token"

\* The token request passes every check before the PKCE check, against the
\* store as it is.
ReachesPKCE(req) ==
  /\ req.grant_type = "authorization_code"
  /\ req.client_id \in DOMAIN clients
  /\ req.code \in DOMAIN authCodes
  /\ now <= authCodes[req.code].ExpiresAt
  /\ authCodes[req.code].ClientID = req.client_id
  /\ authCodes[req.code].RedirectURI = req.redirect_uri

\* C11: a token request whose code_verifier does not hash to the stored
\* code_challenge is answered invalid_grant and leaves the AuthorizationCode
\* store as it was; a request that presents the same code with the right
\* verifier before the expiry still passes the checks.
C11_PKCEFailureKeepsCode ==
  [][ \A p \in Procs :
        (TokenArrives(p) /\ ReachesPKCE(loc'[p].req))
        => IF S256(loc'[p].req.code_verifier)
                # authCodes[loc'[p].req.code].CodeChallenge
           THEN /\ pc'[p] = "done"
                /\ loc'[p].resp.status = StatusBadRequest
                /\ ErrorCode(loc'[p].resp) = "invalid_grant"
                /\ authCodes' = authCodes
                /\ accessTokens' = accessTokens
           ELSE pc'[p] = "tk_delete" ]_vars

\* C11 witness: a code with which a request failed the PKCE check has been
\* redeemed by a later request.
C11_Witness ==
  \E c \in DOMAIN codeLog :
    codeLog[c].pkceRefused /\ codeLog[c].issued = 1

(***************************************************************************)
(* The internal state token.                                               *)
(***************************************************************************)
\* The internal state tokens generated so far.
InternalStates == {StateTokens[i] : i \in 1..minted.state}

\* The strings a response carries in its query and in its body.
Carried(resp) ==
  {resp.query[k] : k \in DOMAIN resp.query}
    \cup {resp.body[i] : i \in 1..Len(resp.body)}

\* The response is a redirect with exactly the state value orig, and with
\* no state parameter when orig is empty.
CarriesState(resp, orig) ==
  resp.kind = "redirect"
  => IF orig = "" THEN "state" \notin DOMAIN resp.query
     ELSE "state" \in DOMAIN resp.query /\ resp.query["state"] = orig

\* C13: the internal state token is carried by the redirect to the identity
\* provider only: no other answer of the Authorization Endpoint or of the
\* Callback Handler contains it, and the state parameter of a redirect
\* towards the client is the state value of the client's authorization
\* request, left out when the client gave none.
C13_InternalStateStaysInside ==
  [][ /\ \A p \in Procs :
           /\ ( /\ pc[p] # "done" /\ pc'[p] = "done"
                /\ loc'[p].ep \in {"authorize", "callback"}
                /\ loc'[p].resp.location # config.GitHubAuthURL )
              => /\ Carried(loc'[p].resp) \cap InternalStates' = {}
                 /\ CarriesState(loc'[p].resp,
                      IF loc'[p].ep = "authorize" THEN loc'[p].req.state
                      ELSE IF pc[p] = "idle" THEN ""
                      ELSE loc[p].authState.State)
           /\ (pc[p] = "idle" /\ pc'[p] = "cb_exchange")
              => loc'[p].authState = states[loc'[p].req.state]
           /\ (pc[p] = "cb_exchange" /\ pc'[p] = "cb_delete")
              => loc'[p].authState = loc[p].authState
      /\ \A k \in DOMAIN states' \ DOMAIN states :
           \E p \in Procs :
             AuthzAnswers(p) /\ states'[k].State = loc'[p].req.state ]_vars

\* C13 witness: the callback has redirected to a client that gave no state,
\* with the code and without a state parameter.
C13_Witness ==
  \E p \in Procs :
    /\ Answered(p, "callback")
    /\ loc[p].resp.kind = "redirect"
    /\ "code" \in DOMAIN loc[p].resp.query
    /\ "state" \notin DOMAIN loc[p].resp.query

(***************************************************************************)
(* Protected MCP endpoint and token verification.                          *)
(***************************************************************************)
\* C12: a request to the protected MCP endpoint, of whatever method, is
\* served by the MCP handler only after the verifier has accepted its
\* bearer token; without a token, or with a rejected one, it is not served.
C12_HandlerOnlyAfterVerify ==
  \A p \in Procs :
    (Answered(p, "mcp") /\ loc[p].resp.kind = "handler")
    => loc[p].req.bearer # "" /\ loc[p].verify.ok

\* Slot p takes up a request to the MCP endpoint that goes to the verifier.
VerifyCalled(p) ==
  /\ pc[p] = "idle" /\ pc'[p] # "idle" /\ loc'[p].ep = "mcp"
  /\ loc'[p].req.method # "GET" /\ loc'[p].req.bearer # ""

\* The bearer token has an AccessToken record that is not past its expiry.
LocallyValid(token) ==
  token \in DOMAIN accessTokens /\ now <= accessTokens[token].ExpiresAt

\* The cache key of the upstream token of a bearer token.
UpstreamKey(token) == <<"github:", accessTokens[token].GitHubAccessToken>>

\* Slot p finishes the call of the provider in this step.
UpstreamAnswers(p) == pc[p] = "mcp_validate" /\ pc'[p] = "done"

\* C14: a Verify that finds an unexpired cache entry for the upstream token
\* calls the provider not at all and returns the cached result: success with
\* the cached subject, or a rejection with the cached error.  A Verify that
\* misses the cache calls the provider once and stores the result, valid or
\* not, with the configured TTL.
C14_CacheShortCircuits ==
  [][ \A p \in Procs :
        /\ (VerifyCalled(p) /\ LocallyValid(loc'[p].req.bearer))
           => LET key == UpstreamKey(loc'[p].req.bearer) IN
              IF key \in DOMAIN tokenCache /\ now <= tokenCache[key].expiresAt
              THEN /\ pc'[p] = "done"
                   /\ loc'[p].verify.calls = 0
                   /\ tokenCache' = tokenCache
                   /\ loc'[p].verify.ok = tokenCache[key].result.Valid
                   /\ loc'[p].verify.subject = tokenCache[key].result.Subject
                   /\ loc'[p].verify.err = tokenCache[key].result.Error
              ELSE pc'[p] = "mcp_validate"
        /\ UpstreamAnswers(p)
           => LET key == <<"github:", loc[p].tokenInfo.GitHubAccessToken>> IN
              /\ loc'[p].verify.calls = 1
              /\ key \in DOMAIN tokenCache'
              /\ tokenCache'[key].expiresAt = now + config.TokenExpiryDuration
              /\ tokenCache'[key].result.Valid = loc'[p].verify.ok
              /\ tokenCache'[key].result.Subject = loc'[p].verify.subject
              /\ tokenCache'[key].result.Error = loc'[p].verify.err ]_vars

\* C14 witness: a Verify has returned a rejection with the cached error
\* without calling the provider.
C14_Witness ==
  \E p \in Procs :
    /\ Answered(p, "mcp")
    /\ loc[p].verify.calls = 0
    /\ loc[p].verify.err = "GitHub API returned status 401"

\* C15: the cache returns no entry past its expiry: a Verify that finds an
\* entry for the upstream token with expiresAt before now goes on to a
\* fresh call of the provider, whether the cleanup has run or not.
C15_CacheExpiry ==
  [][ \A p \in Procs :
        ( /\ VerifyCalled(p) /\ LocallyValid(loc'[p].req.bearer)
          /\ UpstreamKey(loc'[p].req.bearer) \in DOMAIN tokenCache
          /\ now > tokenCache[UpstreamKey(loc'[p].req.bearer)].expiresAt )
        => pc'[p] = "mcp_validate" ]_vars

\* C15 witness: a Verify is calling the provider while the expired entry of
\* the upstream token is still in the cache.
C15_Witness ==
  \E p \in Procs :
    /\ pc[p] = "mcp_validate"
    /\ <<"github:", loc[p].tokenInfo.GitHubAccessToken>> \in DOMAIN tokenCache
    /\ now > tokenCache[<<"github:", loc[p].tokenInfo.GitHubAccessToken>>].expiresAt

C17_DefensiveCopies ==
  [][ held' # held => clients' = clients ]_vars

(***************************************************************************)
(* C18: a dynamically registered client is public (its                     *)
(* token_endpoint_auth_method is "none" once the defaults are applied) if  *)
(* and only if the 201 response carries no client_secret and the stored    *)
(* record holds no secret hash; a confidential client gets the plaintext   *)
(* secret once and only its hash is stored.                                *)
(***************************************************************************)
RegistrationAnswers(p) ==
  /\ pc[p] = "idle" /\ pc'[p] = "done"
  /\ loc'[p].ep = "register"
  /\ loc'[p].resp.status = StatusCreated

C18_PublicIffNoSecret ==
  [][ \A p \in Procs :
        RegistrationAnswers(p) =>
          LET fields == loc'[p].resp.query
              stored == clients'[fields["client_id"]]
              public == stored.TokenEndpointAuthMethod = "none"
          IN /\ fields["token_endpoint_auth_method"]
                  = stored.TokenEndpointAuthMethod
             /\ public <=> /\ "client_secret" \notin DOMAIN fields
                           /\ stored.ClientSecret = ""
             /\ ~public =>
                  /\ "client_secret" \in DOMAIN fields
                  /\ stored.ClientSecret # fields["client_secret"]
                  /\ stored.ClientSecret = "hash(" \o fields["client_secret"] \o ")"
    ]_vars

C18_Witness ==
  \E p \in Procs :
    /\ pc[p] = "done" /\ loc[p].ep = "register"
    /\ loc[p].resp.status = StatusCreated
    /\ loc[p].req.token_endpoint_auth_method = ""
    /\ config.AllowPublicClients

(***************************************************************************)
(* C19: every list of upstream scopes made of at least one repository-read *)
(* scope (repo, public_repo, read:repo_hook) and otherwise only            *)
(* repository-read and user scopes maps to a set that contains read:user   *)
(* and mcp:resources and does not contain mcp:tools; ["repo"] is one such  *)
(* list.                                                                   *)
(***************************************************************************)
Mapped(p) == pc[p] = "done" /\ loc[p].ep = "validateWithGitHub"

Elems(seq) == {seq[i] : i \in 1..Len(seq)}

ReadOnlyGrant(result) ==
  /\ "read:user" \in Elems(result)
  /\ "mcp:resources" \in Elems(result)
  /\ "mcp:tools" \notin Elems(result)

C19_RepoReadMapsToResources ==
  \A p \in Procs :
    ( /\ Mapped(p)
      /\ Elems(loc[p].scopes) \subseteq {"repo", "public_repo", "read:repo_hook",
                                          "read:user", "user", "user:email"}
      /\ Elems(loc[p].scopes)
           \cap {"repo", "public_repo", "read:repo_hook"} # {} )
    => ReadOnlyGrant(loc[p].resp)

C19_Witness ==
  \E p \in Procs :
    /\ Mapped(p)
    /\ loc[p].scopes = << "repo" >>
    /\ loc[p].resp = << "read:user", "mcp:resources" >>

\* C19 as stated, without asking for a repository-read scope in the list:
\* a list of user scopes only, or the empty list, is also a list that
\* contains only repository-read and user scopes.
C19_AsStated ==
  \A p \in Procs :
    ( /\ Mapped(p)
      /\ Elems(loc[p].scopes) \subseteq {"repo", "public_repo", "read:repo_hook",
                                          "read:user", "user", "user:email"} )
    => ReadOnlyGrant(loc[p].resp)

(***************************************************************************)
(* C20: every list of upstream scopes in which no scope has a specific     *)
(* mapping to mcp:resources or mcp:tools (user scopes only, unrecognized   *)
(* scopes, both, or the empty list) maps to a result that contains         *)
(* read:user, mcp:tools and mcp:resources, and every unrecognized scope of *)
(* the list unchanged.                                                     *)
(***************************************************************************)
C20_FallbackGrantsBoth ==
  \A p \in Procs :
    ( /\ Mapped(p)
      /\ Elems(loc[p].scopes)
           \cap {"repo", "public_repo", "read:repo_hook",
                 "workflow", "write:repo_hook", "admin:repo_hook"} = {} )
    => /\ {"read:user", "mcp:tools", "mcp:resources"}
            \subseteq Elems(loc[p].resp)
       /\ Elems(loc[p].scopes) \ {"read:user", "user", "user:email"}
            \subseteq Elems(loc[p].resp)

(***************************************************************************)
(* Properties of the bearer-token server.                                  *)
(***************************************************************************)
\* Slot p has just been answered by a call of ep.
Called(p, ep) == loc'[p] # loc[p] /\ loc'[p].ep = ep

\* The token is in validTokens with an ExpiresAt that has not passed.
StoredUnexpired(token) ==
  /\ token \in DOMAIN validTokens
  /\ validTokens[token].ExpiresAt >= now

(***************************************************************************)
(* C21: after any sequence of Add and Delete on the TokenStore, Get(token) *)
(* returns an entry if and only if the last operation on the token was an  *)
(* Add and the ExpiresAt of the entry added is not in the past, and then   *)
(* it returns that entry; a token added already expired, deleted or never  *)
(* added is reported as not existing.                                      *)
(***************************************************************************)
C21_GetIffLastAddUnexpired ==
  [][ \A p \in Procs :
        Called(p, "TokenStore.Get") =>
          LET token == loc'[p].req
              lastAdd == /\ token \in DOMAIN tokenOps
                         /\ tokenOps[token].op = "Add"
          IN /\ loc'[p].resp.exists
                  <=> (lastAdd /\ tokenOps[token].info.ExpiresAt >= now)
             /\ loc'[p].resp.exists
                  => loc'[p].resp.info = tokenOps[token].info
    ]_vars

C21_Witness ==
  \E p \in Procs :
    /\ pc[p] = "done" /\ loc[p].ep = "TokenStore.Get"
    /\ ~loc[p].resp.exists
    /\ loc[p].req \in DOMAIN validTokens
    /\ validTokens[loc[p].req].ExpiresAt < now
    /\ \E q \in DOMAIN tokenOps : tokenOps[q].op = "Delete"

(***************************************************************************)
(* C22: ValidateBearerToken returns nil for every token, the empty and the *)
(* unknown included, while OAuth is not configured; once it is configured  *)
(* it returns an error for the empty token, for a token that is not in the *)
(* store and for a stored token whose ExpiresAt has passed, and nil only   *)
(* for a stored unexpired token.                                           *)
(***************************************************************************)
C22_ValidateBearerToken ==
  [][ \A p \in Procs :
        Called(p, "ValidateBearerToken") =>
          LET token == loc'[p].req
              err == loc'[p].resp
          IN IF ~oauthConfig.set THEN err = ""
             ELSE /\ token = << >> => err # ""
                  /\ err = "" <=> (token # << >> /\ StoredUnexpired(token))
    ]_vars

C22_Witness ==
  \E p \in Procs :
    /\ pc[p] = "done" /\ loc[p].ep = "ValidateBearerToken"
    /\ oauthConfig.set
    /\ loc[p].resp = "invalid or expired token"
    /\ loc[p].req \in DOMAIN validTokens

(***************************************************************************)
(* C23: with OAuth configured, bearerTokenMiddleware invokes the next      *)
(* handler only for a request whose Authorization header is "Bearer "      *)
(* followed by a token that is stored and unexpired; a request with no     *)
(* Authorization header, with a header that does not start with "Bearer "  *)
(* or with an invalid token gets 401 and the next handler is not invoked.  *)
(***************************************************************************)
HasBearerForm(authHeader) ==
  /\ Len(authHeader) >= 7
  /\ <<authHeader[1], authHeader[2], authHeader[3], authHeader[4],
       authHeader[5], authHeader[6], authHeader[7]>>
       = << "B", "e", "a", "r", "e", "r", " " >>

TouchesStates(p) ==
  \/ pc[p] = "idle" /\ pc'[p] = "store_sweep"
  \/ pc[p] = "store_sweep" /\ pc'[p] = "done"
  \/ /\ pc[p] = "idle" /\ pc'[p] \in {"done", "cb_exchange"}
     /\ loc'[p].ep = "callback"
     /\ loc'[p].req.error = "" /\ loc'[p].req.code # ""
  \/ pc[p] = "cb_delete" /\ pc'[p] = "done"

C24_StoresLocked ==
  [][ \A p \in Procs :
        TouchesStates(p) => \A q \in Procs \ {p} : pc[q] # "store_sweep"
    ]_vars

(***************************************************************************)
(* C25: the Authorization Endpoint applies its gates in a fixed order and  *)
(* returns the error code of the first gate that fails, for every          *)
(* combination of request parameters: response_type other than "code"      *)
(* gives unsupported_response_type; then an empty client_id gives          *)
(* invalid_request and an unknown one invalid_client; then a redirect_uri  *)
(* that is empty or not one of the client's registered URIs gives          *)
(* invalid_request; then a missing code_challenge or a method other than   *)
(* S256 gives invalid_request; then a requested scope outside the          *)
(* supported set gives invalid_scope.  No state is stored.                 *)
(***************************************************************************)
FirstFailingGate(req) ==
  IF req.response_type # "code" THEN "unsupported_response_type"
  ELSE IF req.client_id = "" THEN "invalid_request"
  ELSE IF req.client_id \notin DOMAIN clients THEN "invalid_client"
  ELSE IF req.redirect_uri = ""
          \/ req.redirect_uri \notin URISet(clients[req.client_id])
  THEN "invalid_request"
  ELSE IF req.code_challenge = "" \/ req.code_challenge_method # "S256"
  THEN "invalid_request"
  ELSE IF \E i \in DOMAIN req.scope : req.scope[i] \notin ScopesSupported
  THEN "invalid_scope"
  ELSE ""

C25_FirstFailingGateWins ==
  [][ \A p \in Procs :
        (AuthzAnswers(p) /\ FirstFailingGate(loc'[p].req) # "")
        => /\ ErrorCode(loc'[p].resp) = FirstFailingGate(loc'[p].req)
           /\ states' = states
    ]_vars

(***************************************************************************)
(* C26: the Token Endpoint applies its checks in a fixed order and returns *)
(* the error of the first one that fails: a grant_type other than          *)
(* authorization_code gives unsupported_grant_type; a missing code,        *)
(* client_id, code_verifier or redirect_uri gives invalid_request; an      *)
(* unknown client_id gives invalid_client, also when the code is invalid   *)
(* too; a code that is absent or expired gives invalid_grant; a client_id, *)
(* redirect_uri or PKCE mismatch with the stored code gives invalid_grant. *)
(* A request that fails none of them goes on to redeem the code.           *)
(***************************************************************************)
FirstFailingCheck(req) ==
  IF req.grant_type # "authorization_code" THEN "unsupported_grant_type"
  ELSE IF "" \in {req.code, req.client_id, req.code_verifier, req.redirect_uri}
  THEN "invalid_request"
  ELSE IF req.client_id \notin DOMAIN clients THEN "invalid_client"
  ELSE IF req.code \notin DOMAIN authCodes THEN "invalid_grant"
  ELSE IF now > authCodes[req.code].ExpiresAt THEN "invalid_grant"
  ELSE IF \/ authCodes[req.code].ClientID # req.client_id
          \/ authCodes[req.code].RedirectURI # req.redirect_uri
          \/ authCodes[req.code].CodeChallengeMethod # "S256"
          \/ authCodes[req.code].CodeChallenge # S256(req.code_verifier)
  THEN "invalid_grant"
  ELSE ""

C26_FirstFailingCheckWins ==
  [][ \A p \in Procs :
        TokenArrives(p) =>
          IF FirstFailingCheck(loc'[p].req) # ""
          THEN /\ pc'[p] = "done"
               /\ ErrorCode(loc'[p].resp) = FirstFailingCheck(loc'[p].req)
               /\ accessTokens' = accessTokens
          ELSE pc'[p] = "tk_delete"
    ]_vars

C26_Witness ==
  \E p \in Procs :
    /\ Answered(p, "token")
    /\ loc[p].req.client_id = "nobody"
    /\ loc[p].req.code = "ac9"
    /\ loc[p].req.grant_type = "authorization_code"
    /\ ErrorCode(loc[p].resp) = "invalid_client"
    /\ authCodes # EmptyMap

(***************************************************************************)
(* Properties of the Callback Handler.                                     *)
(***************************************************************************)
\* A callback request arrives in slot p and is taken up to stateStore.Get.
CallbackArrives(p) ==
  pc[p] = "idle" /\ pc'[p] # "idle" /\ loc'[p].ep = "callback"

\* The callback of slot p returns.
CallbackReturns(p) ==
  pc[p] # "done" /\ pc'[p] = "done" /\ loc'[p].ep = "callback"

(***************************************************************************)
(* C27: every AuthorizationCode record enters the store in a Callback      *)
(* Handler request that had no provider error parameter, carried a         *)
(* non-empty provider code and a state that resolved in the State Store,   *)
(* and whose upstream exchange succeeded.  A callback whose state does not *)
(* resolve gets a direct error and never reaches the exchange; a failed    *)
(* exchange redirects the client to its redirect_uri with server_error and *)
(* stores no code.                                                         *)
(***************************************************************************)
C27_CodesOnlyFromGoodCallbacks ==
  [][ /\ \A c \in DOMAIN authCodes' \ DOMAIN authCodes :
           \E p \in Procs :
             /\ pc[p] = "cb_exchange" /\ pc'[p] = "cb_delete"
             /\ loc[p].ep = "callback"
             /\ loc[p].req.error = ""
             /\ loc[p].req.code # ""
             /\ \E s \in DOMAIN codeLog' :
                  /\ s = c
                  /\ codeLog'[s].state = loc[p].req.state
             /\ authCodes'[c].GitHubAccessToken # ""
             /\ authCodes'[c].ClientID = loc[p].authState.ClientID
             /\ authCodes'[c].RedirectURI = loc[p].authState.RedirectURI
      /\ \A p \in Procs :
           /\ (CallbackArrives(p) /\ pc'[p] = "cb_exchange")
               => /\ loc'[p].req.error = "" /\ loc'[p].req.code # ""
                  /\ loc'[p].req.state \in DOMAIN states
                  /\ loc'[p].authState = states[loc'[p].req.state]
           /\ (CallbackArrives(p) /\ loc'[p].req.state \notin DOMAIN states)
               => /\ pc'[p] = "done"
                  /\ loc'[p].resp.kind = "body"
                  /\ loc'[p].resp.status = StatusBadRequest
                  /\ authCodes' = authCodes
           /\ (pc[p] = "cb_exchange" /\ pc'[p] = "done")
               => /\ loc'[p].resp.kind = "redirect"
                  /\ loc'[p].resp.location = loc[p].authState.RedirectURI
                  /\ ErrorCode(loc'[p].resp) = "server_error"
                  /\ authCodes' = authCodes
    ]_vars

C27_Witness ==
  \E p \in Procs :
    /\ Answered(p, "callback")
    /\ loc[p].resp.kind = "redirect"
    /\ ErrorCode(loc[p].resp) = "server_error"
    /\ loc[p].resp.location = "https://vscode.dev/redirect"
    /\ authCodes = EmptyMap

(***************************************************************************)
(* C28: an AuthorizationState exists only between the redirect to the      *)
(* provider and the provider's redirect back: once a Callback Handler      *)
(* request carrying state s has returned, whether it succeeded, carried a  *)
(* provider error or failed at the upstream exchange, s is not in the      *)
(* State Store any more.                                                   *)
(***************************************************************************)
C28_StateGoneAfterCallback ==
  [][ \A p \in Procs :
        CallbackReturns(p) => loc'[p].req.state \notin DOMAIN states'
    ]_vars

(***************************************************************************)
(* C29: when the provider's callback carries an error parameter and its    *)
(* state resolves in the State Store, the Callback Handler redirects to    *)
(* the client's stored redirect_uri with that error and the client's       *)
(* original state, and mints no code; the error is returned directly in    *)
(* the response only when the state does not resolve.                      *)
(***************************************************************************)
C29_ProviderErrorGoesToClient ==
  [][ \A p \in Procs :
        (CallbackArrives(p) /\ loc'[p].req.error # "") =>
          /\ pc'[p] = "done"
          /\ authCodes' = authCodes
          /\ IF loc'[p].req.state \in DOMAIN states
             THEN LET authState == states[loc'[p].req.state] IN
                  /\ loc'[p].resp.kind = "redirect"
                  /\ loc'[p].resp.location = authState.RedirectURI
                  /\ ErrorCode(loc'[p].resp) = loc'[p].req.error
                  /\ IF authState.State = ""
                     THEN "state" \notin DOMAIN loc'[p].resp.query
                     ELSE /\ "state" \in DOMAIN loc'[p].resp.query
                          /\ loc'[p].resp.query["state"] = authState.State
             ELSE loc'[p].resp.kind = "body"
    ]_vars

(***************************************************************************)
(* C30: every authorization request that passes all five gates, the        *)
(* internal token having been generated, adds exactly one new              *)
(* AuthorizationState to the State Store, keyed by that token, which was   *)
(* not in the store before, with the request's client_id, redirect_uri,    *)
(* scope (the default baseline when omitted), state, code_challenge,       *)
(* method and resource; and the response is a 302 to the provider's        *)
(* authorization URL carrying the provider client_id, the callback URL     *)
(* <server>/oauth/callback, the scope read:user and the internal token as  *)
(* state.                                                                  *)
(***************************************************************************)
C30_PassingRequestStoresState ==
  [][ \A p \in Procs :
        ( /\ AuthzAnswers(p)
          /\ FirstFailingGate(loc'[p].req) = ""
          /\ minted'.state = minted.state + 1 )
        => LET req == loc'[p].req
               resp == loc'[p].resp
           IN \E s \in DOMAIN states' :
                /\ DOMAIN states' \ DOMAIN states = {s}
                /\ s = StateTokens[minted'.state]
                /\ states'[s].ClientID = req.client_id
                /\ states'[s].RedirectURI = req.redirect_uri
                /\ states'[s].Scope
                     = (IF req.scope = << >>
                        THEN << "mcp:tools", "mcp:resources", "read:user" >>
                        ELSE req.scope)
                /\ states'[s].State = req.state
                /\ states'[s].CodeChallenge = req.code_challenge
                /\ states'[s].CodeChallengeMethod = req.code_challenge_method
                /\ states'[s].Resource = req.resource
                /\ states'[s].CreatedAt = now
                /\ resp.kind = "redirect" /\ resp.status = 302
                /\ resp.location = "https://github.com/login/oauth/authorize"
                /\ resp.query
                     = [ client_id |-> "github-client-id",
                         redirect_uri |-> "http://localhost:8080/oauth/callback",
                         scope |-> "read:user",
                         state |-> s ]
    ]_vars

C30_Witness ==
  \E p \in Procs :
    /\ Answered(p, "authorize")
    /\ loc[p].req.scope = << >>
    /\ loc[p].resp.kind = "redirect"
    /\ loc[p].resp.location = "https://github.com/login/oauth/authorize"
    /\ loc[p].resp.query["state"] = "st2"
    /\ DOMAIN states = {"st2"}

(***************************************************************************)
(* The Authorization Endpoint under either setting of GITHUB_AUTH_URL.     *)
(***************************************************************************)
\* LoadConfigFromEnv: GITHUB_AUTH_URL replaces the default unvalidated
ProviderConfigs ==
  { [c EXCEPT !.GitHubAuthURL = u] :
      c \in Configs, u \in {"https://github.com/login/oauth/authorize", "://bad"} }

InitProvider ==
  /\ config \in ProviderConfigs
  /\ InitStores

NextProvider ==
  \/ Tick
  \/ \E req \in StoreRequests, randOK \in BOOLEAN :
       /\ Authorize("r1", req, randOK)
       /\ minted'.state <= MaxStates
  \/ Return("r1")

SpecProvider == InitProvider /\ [][NextProvider]_vars

\* The response is the redirect to the identity provider.
ProviderRedirect(resp) ==
  /\ resp.kind = "redirect"
  /\ resp.status = 302
  /\ resp.location = "https://github.com/login/oauth/authorize"

\* The response is an error: a redirect carrying an error code to the
\* client, or a 400 body.
ErrorOutcome(resp) ==
  \/ resp.kind = "body" /\ resp.status = 400
  \/ resp.kind = "redirect" /\ "error" \in DOMAIN resp.query

(***************************************************************************)
(* C31: every authorization request ends in exactly one outcome, the       *)
(* redirect to the identity provider or an error redirect/response, and a  *)
(* request answered with an error leaves the State Store as it was.        *)
(***************************************************************************)
C31_ErrorLeavesStatesAlone ==
  [][ \A p \in Procs :
        AuthzAnswers(p)
        => /\ ProviderRedirect(loc'[p].resp) # ErrorOutcome(loc'[p].resp)
           /\ ErrorOutcome(loc'[p].resp) => states' = states
    ]_vars

(***************************************************************************)
(* The records of one flow after the other: AuthorizationState,            *)
(* AuthorizationCode and AccessToken.                                      *)
(***************************************************************************)
\* The authorization requests of the vscode client that pass every gate,
\* with and without scope and resource
RecordAuthzRequests ==
  { [ response_type |-> "code", client_id |-> "vscode",
      redirect_uri |-> "https://vscode.dev/redirect", scope |-> scope,
      state |-> "xyz", code_challenge |-> S256("v1"),
      code_challenge_method |-> "S256", resource |-> resource ] :
    scope \in {<<>>, <<"mcp:tools">>},
    resource \in {"", "https://mcp.example"} }

\* exchangeGitHubCode: the access token of the provider, "" when the
\* exchange failed
GitHubTokens == {"", "gho_1", "gho_2"}

\* The Authorization Endpoint and the Callback Handler, one request after
\* the other in slot r1 with the clock: the provider hands out either of
\* two access tokens.
NextCodes ==
  \/ Tick
  \/ \E req \in RecordAuthzRequests :
       Authorize("r1", req, TRUE) /\ minted'.state <= MaxStates
  \/ \E req \in CallbackRequests : CallbackBegin("r1", req)
  \/ \E githubToken \in GitHubTokens, randOK \in BOOLEAN :
       CallbackExchange("r1", githubToken, randOK) /\ minted'.code <= MaxCodes
  \/ CallbackFinish("r1")
  \/ Return("r1")

SpecCodes == Init /\ [][NextCodes]_vars

\* One flow in slot r1 with the clock, up to the Token Endpoint.
NextRecords ==
  \/ Tick
  \/ \E req \in RecordAuthzRequests :
       Authorize("r1", req, TRUE) /\ minted'.state <= MaxAuthzStates
  \/ \E req \in CallbackRequests : CallbackBegin("r1", req)
  \/ \E githubToken \in GitHubTokens :
       CallbackExchange("r1", githubToken, TRUE) /\ minted'.code <= MaxCodes
  \/ CallbackFinish("r1")
  \/ \E req \in TokenRequests : TokenBegin("r1", req)
  \/ TokenDelete("r1")
  \/ \E randOK \in BOOLEAN :
       TokenIssue("r1", randOK) /\ minted'.token <= MaxTokens
  \/ Return("r1")

SpecRecords == Init /\ [][NextRecords]_vars

\* The Callback Handler of slot p mints an authorization code in this step.
CallbackMints(p) ==
  pc[p] = "cb_exchange" /\ minted'.code = minted.code + 1

(***************************************************************************)
(* C32: every AuthorizationCode record minted by the Callback Handler      *)
(* carries the client_id, redirect_uri, scope, code_challenge,             *)
(* code_challenge_method and resource of the AuthorizationState stored     *)
(* under the callback's state parameter, together with the upstream access *)
(* token obtained in that same callback, and expires 10 minutes after      *)
(* creation.                                                               *)
(***************************************************************************)
C32_CodeCarriesStateAndToken ==
  [][ \A p \in Procs :
        CallbackMints(p)
        => LET c == AuthCodes[minted'.code]
               s == states[loc[p].req.state]
           IN /\ c \in DOMAIN authCodes' \ DOMAIN authCodes
              /\ authCodes'[c].ClientID = s.ClientID
              /\ authCodes'[c].RedirectURI = s.RedirectURI
              /\ authCodes'[c].Scope = s.Scope
              /\ authCodes'[c].CodeChallenge = s.CodeChallenge
              /\ authCodes'[c].CodeChallengeMethod = s.CodeChallengeMethod
              /\ authCodes'[c].Resource = s.Resource
              /\ authCodes'[c].GitHubAccessToken = loc'[p].githubToken
              /\ loc'[p].githubToken # ""
              /\ authCodes'[c].CreatedAt = now
              /\ authCodes'[c].ExpiresAt = now + 10
    ]_vars

C32_Witness ==
  \E p \in Procs :
    /\ pc[p] = "cb_delete"
    /\ loc[p].req.state = "st2"
    /\ loc[p].githubToken = "gho_2"
    /\ now = 5
    /\ "ac2" \in DOMAIN authCodes
    /\ authCodes["ac2"].Resource = "https://mcp.example"
    /\ authCodes["ac2"].Scope = <<"mcp:tools">>
    /\ authCodes["ac2"].GitHubAccessToken = "gho_2"
    /\ authCodes["ac2"].ExpiresAt = 15
    /\ "ac1" \in DOMAIN authCodes
    /\ authCodes["ac1"].Resource = ""
    /\ authCodes["ac1"].GitHubAccessToken = "gho_1"

\* The Token Endpoint of slot p creates an access token in this step.
TokenMints(p) ==
  pc[p] = "tk_issue" /\ minted'.token = minted.token + 1

(***************************************************************************)
(* C33: every AccessToken record created by the Token Endpoint has the     *)
(* client_id of the requesting client, the scope, resource and upstream    *)
(* token of the redeemed authorization code, and expires the configured    *)
(* token-expiry duration after its creation; the response reports          *)
(* token_type Bearer, expires_in equal to that duration in seconds, the     *)
(* same scope, and the resource only when the code had one.                *)
(***************************************************************************)
C33_TokenCarriesCode ==
  [][ \A p \in Procs :
        TokenMints(p)
        => LET t == AccessTokens[minted'.token]
               req == loc[p].req
               code == codeLog[req.code].info
               resp == loc'[p].resp
           IN /\ t \in DOMAIN accessTokens' \ DOMAIN accessTokens
              /\ accessTokens'[t].ClientID = req.client_id
              /\ accessTokens'[t].Scope = code.Scope
              /\ accessTokens'[t].Resource = code.Resource
              /\ accessTokens'[t].GitHubAccessToken = code.GitHubAccessToken
              /\ accessTokens'[t].CreatedAt = now
              /\ accessTokens'[t].ExpiresAt = now + config.TokenExpiryDuration
              /\ pc'[p] = "done"
              /\ resp.kind = "json" /\ resp.status = 200
              /\ resp.query["access_token"] = t
              /\ resp.query["token_type"] = "Bearer"
              /\ resp.query["expires_in"] = 60 * config.TokenExpiryDuration
              /\ resp.query["scope"] = code.Scope
              /\ ("resource" \in DOMAIN resp.query) = (code.Resource # "")
              /\ code.Resource # "" => resp.query["resource"] = code.Resource
    ]_vars

C33_Witness ==
  \E p \in Procs :
    /\ Answered(p, "token")
    /\ loc[p].resp.kind = "json" /\ loc[p].resp.status = 200
    /\ "resource" \notin DOMAIN loc[p].resp.query
    /\ loc[p].resp.query["scope"] = <<"mcp:tools">>
    /\ loc[p].resp.query["expires_in"] = 600
    /\ "at1" \in DOMAIN accessTokens
    /\ accessTokens["at1"].GitHubAccessToken = "gho_2"
    /\ accessTokens["at1"].CreatedAt = 5
    /\ accessTokens["at1"].ExpiresAt = 15
    /\ codeLog["ac1"].info.CreatedAt = 0

(***************************************************************************)
(* C34: in a token request that passes all the checks the authorization    *)
(* code is deleted before the access token is generated and stored: the    *)
(* code is gone when issuance starts, it stays gone when issuance fails    *)
(* with server_error, and every later request that presents it, the retry  *)
(* of the same request included, is answered invalid_grant.                *)
(***************************************************************************)
C34_CodeConsumedBeforeIssue ==
  [][ \A p \in Procs :
        /\ ( pc[p] = "tk_issue" /\ pc'[p] = "done" )
           => /\ loc[p].req.code \notin DOMAIN authCodes
              /\ loc[p].req.code \notin DOMAIN authCodes'
              /\ ( minted'.token = minted.token
                   => /\ loc'[p].resp.status = 500
                      /\ ErrorCode(loc'[p].resp) = "server_error"
                      /\ accessTokens' = accessTokens )
        /\ ( /\ TokenArrives(p)
             /\ loc'[p].req.code \in DOMAIN codeLog
             /\ codeLog[loc'[p].req.code].accepted >= 1 )
           => /\ pc'[p] = "done"
              /\ loc'[p].resp.status = 400
              /\ ErrorCode(loc'[p].resp) = "invalid_grant"
    ]_vars

\* A request that passed every check failed at issuance, and the same
\* request sent again is refused.
C34_Witness ==
  \E p \in Procs :
    /\ Answered(p, "token")
    /\ ValidFor(loc[p].req, "ac1")
    /\ codeLog["ac1"].accepted = 1
    /\ codeLog["ac1"].issued = 0
    /\ now <= codeLog["ac1"].info.ExpiresAt
    /\ ErrorCode(loc[p].resp) = "invalid_grant"
    /\ accessTokens = EmptyMap

\* Slot p takes a step of GitHubTokenVerifier.Verify: the lookup of the
\* token and of the cache, or the validation by the provider.
VerifySteps(p) ==
  \/ pc[p] = "idle" /\ pc'[p] # "idle" /\ loc'[p].ep = "mcp"
  \/ pc[p] = "mcp_validate" /\ pc'[p] = "done"

(***************************************************************************)
(* C35: bearer-token verification has no effect on the local token stores: *)
(* whatever the token and the outcome, a Verify call leaves the            *)
(* AuthorizationCode and AccessToken stores unchanged, and it writes the   *)
(* token-validation cache only after a cache miss.                         *)
(***************************************************************************)
C35_VerifyLeavesStoresAlone ==
  [][ \A p \in Procs :
        VerifySteps(p)
        => /\ authCodes' = authCodes
           /\ accessTokens' = accessTokens
           /\ tokenCache' # tokenCache => pc[p] = "mcp_validate"
    ]_vars

\* The registration request is one the endpoint has to refuse.
MustRefuse(req) ==
  \/ ~config.EnableDCR
  \/ req.redirect_uris = << >>
  \/ \E i \in DOMAIN req.redirect_uris : req.redirect_uris[i] = ""
  \/ \E i \in DOMAIN req.grant_types :
       req.grant_types[i] \notin {"authorization_code", "implicit", "password",
                                  "client_credentials", "refresh_token"}
  \/ \E i \in DOMAIN req.response_types :
       req.response_types[i] \notin {"code", "token"}
  \/ req.token_endpoint_auth_method
       \notin {"", "none", "client_secret_post", "client_secret_basic"}
  \/ req.token_endpoint_auth_method = "none" /\ ~config.AllowPublicClients

(***************************************************************************)
(* C36: a POST to the registration endpoint is refused with an error JSON  *)
(* (error and error_description, status 403 or 400) and leaves the Client  *)
(* Store unchanged when dynamic registration is disabled, when             *)
(* redirect_uris is empty or contains an empty URI, when a grant type, a   *)
(* response type or the token_endpoint_auth_method is outside the allowed  *)
(* sets, or when a public client is requested while public clients are not *)
(* allowed; every accepted request stores exactly one new client, under    *)
(* the client_id it returns, and changes no other client.                  *)
(***************************************************************************)
C36_RefusedOrOneNewClient ==
  [][ \A p \in Procs :
        ( /\ pc[p] = "idle" /\ pc'[p] = "done"
          /\ loc'[p].ep = "register"
          /\ loc'[p].req.method = "POST" )
        => LET req == loc'[p].req
               resp == loc'[p].resp
           IN /\ resp.kind = "json"
              /\ MustRefuse(req)
                 => /\ resp.status = (IF config.EnableDCR THEN 400 ELSE 403)
                    /\ DOMAIN resp.query = {"error", "error_description"}
                    /\ resp.query["error"]
                         = (IF config.EnableDCR THEN "invalid_client_metadata"
                            ELSE "invalid_request")
                    /\ clients' = clients
              /\ resp.status # 201 => clients' = clients
              /\ resp.status = 201
                 => /\ ~MustRefuse(req)
                    /\ resp.query["client_id"] \notin DOMAIN clients
                    /\ DOMAIN clients'
                         = DOMAIN clients \cup {resp.query["client_id"]}
                    /\ \A id \in DOMAIN clients : clients'[id] = clients[id]
                    /\ clients'[resp.query["client_id"]].RedirectURIs
                         = req.redirect_uris
    ]_vars

\* A request with a grant type outside the allowed set is refused after a
\* client has been registered.
C36_Witness ==
  \E p \in Procs :
    /\ Answered(p, "register")
    /\ loc[p].req.method = "POST"
    /\ loc[p].req.redirect_uris = << "https://client.example/cb" >>
    /\ loc[p].req.grant_types = << "authorization_code", "device_code" >>
    /\ loc[p].req.response_types = << "code" >>
    /\ loc[p].req.token_endpoint_auth_method = "client_secret_basic"
    /\ loc[p].resp.status = 400
    /\ loc[p].resp.query["error"] = "invalid_client_metadata"
    /\ "cid1" \in DOMAIN clients
    /\ "cid2" \notin DOMAIN clients

(***************************************************************************)
(* The flow for a public and for a confidential client, the token request  *)
(* carrying a client_secret or none.                                       *)
(***************************************************************************)
\* The authorization requests of the vscode client and of the confidential
\* client dcr1, each with its registered redirect_uri
SecretAuthzRequests ==
  { [ response_type |-> "code", client_id |-> c.id,
      redirect_uri |-> c.uri, scope |-> <<>>,
      state |-> "xyz", code_challenge |-> S256("v1"),
      code_challenge_method |-> "S256", resource |-> "" ] :
    c \in { [id |-> "vscode", uri |-> "https://vscode.dev/redirect"],
            [id |-> "dcr1", uri |-> "https://client.example/cb"] } }

\* r.FormValue of the token request, client_secret included: absent, the
\* secret dcr1 was registered with, another one
SecretTokenRequests ==
  [ grant_type : {"authorization_code"},
    code : {AuthCodes[i] : i \in 1..MaxCodes},
    client_id : {"vscode", "dcr1"},
    code_verifier : {"v1", "v2"},
    redirect_uri : {"https://vscode.dev/redirect", "https://client.example/cb"},
    client_secret : {"", "sec1", "wrong"} ]

NextSecret ==
  \/ \E req \in SecretAuthzRequests :
       Authorize("r1", req, TRUE) /\ minted'.state <= MaxStates
  \/ \E req \in CallbackRequests : CallbackBegin("r1", req)
  \/ CallbackExchange("r1", "gho_1", TRUE) /\ minted'.code <= MaxCodes
  \/ CallbackFinish("r1")
  \/ \E req \in SecretTokenRequests : TokenBegin("r1", req)
  \/ TokenDelete("r1")
  \/ TokenIssue("r1", TRUE) /\ minted'.token <= MaxTokens
  \/ Return("r1")

SpecSecret == Init /\ [][NextSecret]_vars

\* The token request without its client_secret.
WithoutSecret(req) == [f \in DOMAIN req \ {"client_secret"} |-> req[f]]

(***************************************************************************)
(* C37: the outcome of a token request is a function of grant_type, code,  *)
(* client_id, code_verifier, redirect_uri and the stores only: whether a   *)
(* client_secret is supplied, and which, changes neither acceptance nor    *)
(* the error returned, also for a confidential client registered with a    *)
(* secret.                                                                 *)
(***************************************************************************)
C37_SecretDoesNotMatter ==
  [][ \A p \in Procs :
        TokenArrives(p)
        => LET bare == WithoutSecret(loc'[p].req)
           IN /\ (pc'[p] = "tk_delete") = (FirstFailingCheck(bare) = "")
              /\ pc'[p] # "tk_delete"
                 => /\ pc'[p] = "done"
                    /\ ErrorCode(loc'[p].resp) = FirstFailingCheck(bare)
    ]_vars

\* The confidential client dcr1 redeems a code with a wrong client_secret.
C37_Witness ==
  \E p \in Procs :
    /\ Answered(p, "token")
    /\ loc[p].req.client_id = "dcr1"
    /\ loc[p].req.client_secret = "wrong"
    /\ clients["dcr1"].ClientSecret = "hash(sec1)"
    /\ loc[p].resp.status = 200
    /\ \E t \in DOMAIN accessTokens : accessTokens[t].ClientID = "dcr1"

(***************************************************************************)
(* Registration and the flow together: a client registers, then runs the   *)
(* flow; requests are served one after the other in slot r1.               *)
(***************************************************************************)
\* POST /register for a confidential or a public client with one
\* redirect_uri
ChainRegistrationRequests ==
  [ method : {"POST"},
    redirect_uris : { << "https://client.example/cb" >>,
                      << "https://evil.example/cb" >> },
    grant_types : { << >> },
    response_types : { << >> },
    token_endpoint_auth_method : {"none", "client_secret_basic"} ]

\* The authorization requests of the pre-registered client, of the first
\* client registered through the endpoint and of an unknown client
ChainAuthzRequests ==
  [ response_type : {"code"},
    client_id : {"vscode", ClientIDs[1], "nobody"},
    redirect_uri : {"https://vscode.dev/redirect", "https://client.example/cb",
                    "https://evil.example/cb"},
    scope : {<<>>},
    state : {"xyz"},
    code_challenge : {S256("v1")},
    code_challenge_method : {"S256"},
    resource : {""} ]

ChainTokenRequests ==
  [ grant_type : {"authorization_code"},
    code : {AuthCodes[i] : i \in 1..MaxCodes},
    client_id : {"vscode", ClientIDs[1]},
    code_verifier : {"v1"},
    redirect_uri : {"https://vscode.dev/redirect", "https://client.example/cb",
                    "https://evil.example/cb"} ]

NextChain ==
  \/ \E req \in ChainRegistrationRequests :
       /\ Cardinality(Registered) < MaxRegistrations
       /\ Register("r1", req, TRUE, TRUE)
  \/ \E req \in ChainAuthzRequests :
       Authorize("r1", req, TRUE) /\ minted'.state <= MaxAuthzStates
  \/ \E req \in CallbackRequests : CallbackBegin("r1", req)
  \/ \E githubToken \in GitHubTokens :
       CallbackExchange("r1", githubToken, TRUE) /\ minted'.code <= MaxCodes
  \/ CallbackFinish("r1")
  \/ \E req \in ChainTokenRequests : TokenBegin("r1", req)
  \/ TokenDelete("r1")
  \/ TokenIssue("r1", TRUE) /\ minted'.token <= MaxTokens
  \/ Return("r1")

SpecChain == Init /\ [][NextChain]_vars

\* The record's client_id is in the Client Store cs and its redirect_uri is
\* one of the redirect URIs registered for that client.
BoundToClient(rec, cs) ==
  /\ rec.ClientID \in DOMAIN cs
  /\ rec.RedirectURI \in URISet(cs[rec.ClientID])

(***************************************************************************)
(* C38: after any sequence of register, authorize, callback and token      *)
(* requests, every AuthorizationState entered the State Store while its    *)
(* client_id was in the Client Store with its redirect_uri among that      *)
(* client's registered URIs, and keeps both; every AuthorizationCode has   *)
(* the client_id and redirect_uri of the AuthorizationState its callback   *)
(* resolved; and every AccessToken has the client_id and the upstream      *)
(* token of an authorization code minted by a callback.                    *)
(***************************************************************************)
C38_RecordsBoundToClients ==
  [][ /\ \A s \in DOMAIN states' \ DOMAIN states :
           BoundToClient(states'[s], clients)
      /\ \A s \in DOMAIN states' \cap DOMAIN states :
           states'[s] = states[s]
      /\ \A id \in DOMAIN clients :
           id \in DOMAIN clients' /\ clients'[id] = clients[id]
      /\ \A c \in DOMAIN authCodes' \ DOMAIN authCodes :
           \E s \in DOMAIN states :
             /\ authCodes'[c].ClientID = states[s].ClientID
             /\ authCodes'[c].RedirectURI = states[s].RedirectURI
             /\ c \in DOMAIN codeLog' \ DOMAIN codeLog
             /\ codeLog'[c].info = authCodes'[c]
      /\ \A c \in DOMAIN authCodes' \cap DOMAIN authCodes :
           authCodes'[c] = authCodes[c]
      /\ \A s \in DOMAIN states' : BoundToClient(states'[s], clients')
      /\ \A c \in DOMAIN authCodes' : BoundToClient(authCodes'[c], clients')
      /\ \A t \in DOMAIN accessTokens' :
           \E c \in DOMAIN codeLog' :
             /\ accessTokens'[t].ClientID = codeLog'[c].info.ClientID
             /\ accessTokens'[t].GitHubAccessToken
                  = codeLog'[c].info.GitHubAccessToken
    ]_vars

\* A client registered through the endpoint holds an access token.
C38_Witness ==
  /\ "cid1" \in DOMAIN clients
  /\ "cid2" \in DOMAIN clients
  /\ \E t \in DOMAIN accessTokens :
       /\ accessTokens[t].ClientID = "cid1"
       /\ accessTokens[t].GitHubAccessToken = "gho_2"
  /\ \E c \in DOMAIN codeLog :
       /\ codeLog[c].info.ClientID = "cid1"
       /\ codeLog[c].info.RedirectURI = "https://client.example/cb"

\* Slot p starts a Verify call for a bearer token that is in the
\* AccessToken store and has not expired there.
VerifyStored(p) ==
  /\ pc[p] = "idle" /\ pc'[p] # "idle" /\ loc'[p].ep = "mcp"
  /\ loc'[p].req.method = "POST"
  /\ loc'[p].req.bearer \in DOMAIN accessTokens
  /\ now <= accessTokens[loc'[p].req.bearer].ExpiresAt

(***************************************************************************)
(* C39: acceptance of a bearer token rests on an answer of the identity    *)
(* provider for its upstream token that is at most TokenExpiryDuration     *)
(* old.  A cache entry is written only by a Verify call that has just      *)
(* asked the provider, holds the provider's answer, and expires            *)
(* TokenExpiryDuration later; Verify accepts either on a positive answer   *)
(* received in the same call or on an unexpired positive entry, without    *)
(* asking again; on an unexpired negative entry it rejects without asking; *)
(* and without an unexpired entry it asks the provider.                    *)
(***************************************************************************)
C39_EvidenceAtMostOneTTLOld ==
  [][ /\ \A k \in DOMAIN tokenCache' :
           ( k \notin DOMAIN tokenCache \/ tokenCache'[k] # tokenCache[k] )
           => \E p \in Procs :
                /\ pc[p] = "mcp_validate" /\ pc'[p] = "done"
                /\ k = << "github:", loc[p].tokenInfo.GitHubAccessToken >>
                /\ loc'[p].verify.calls = 1
                /\ tokenCache'[k].result.Valid = loc'[p].verify.ok
                /\ tokenCache'[k].expiresAt = now + config.TokenExpiryDuration
      /\ \A p \in Procs :
           VerifyStored(p)
           => LET k == UpstreamKey(loc'[p].req.bearer)
                  fresh == /\ k \in DOMAIN tokenCache
                           /\ now <= tokenCache[k].expiresAt
              IN IF fresh
                 THEN /\ pc'[p] = "done"
                      /\ loc'[p].verify.calls = 0
                      /\ loc'[p].verify.ok = tokenCache[k].result.Valid
                      /\ now - (tokenCache[k].expiresAt
                                  - config.TokenExpiryDuration)
                           <= config.TokenExpiryDuration
                      /\ tokenCache' = tokenCache
                 ELSE pc'[p] = "mcp_validate"
    ]_vars

\* A token is accepted from the cache at the last minute of the entry, and
\* another one is rejected from a negative entry.
C39_Witness ==
  \E p \in Procs :
    /\ Answered(p, "mcp")
    /\ loc[p].verify.ok
    /\ loc[p].verify.calls = 0
    /\ now = 10
    /\ loc[p].req.bearer \in DOMAIN accessTokens
    /\ tokenCache[UpstreamKey(loc[p].req.bearer)].expiresAt = 10

(***************************************************************************)
(* The chat relay: chat.Server.  Each goroutine runs one call at a time;   *)
(* a call is a sequence of steps, each atomic on the sync.Map, the mutex   *)
(* or one channel.                                                         *)
(***************************************************************************)
\* make(chan Message, 10)
MessageChanCap == 10
\* NewServer: maxMessages
maxMessages == 100

Sessions == {"s1", "s2"}

\* The GitHub user of a session
GitHubUser(sessionID) == IF sessionID = "s1" THEN "alice" ELSE "bob"

\* Everything of the server but the chat relay.
nonChatVars ==
  << config, now, clients, storedArr, held, states, authCodes, accessTokens,
     tokenCache, oauthConfig, validTokens, tokenOps, minted, pc, loc, codeLog >>

\* A goroutine has panicked: the process is gone.
Panicked == \E g \in Goroutines : chat[g].pc = "panic"

\* The calls begun so far each broadcast at most one message.
BroadcastsLeft ==
  Len(messages)
    + Cardinality({g \in Goroutines : chat[g].pc \in {"close", "append"}})
    < MaxMessages

\* BroadcastMessage: msg := Message{...}
NewMessage(sender, message) == [Sender |-> sender, Message |-> message]

\* RegisterConnection up to connections.Store; the join notification
\* follows
RegisterConnection(g, sessionID) ==
  LET conn == Cardinality(DOMAIN channels) + 1 IN
  /\ ~Panicked /\ chat[g].pc = "idle" /\ BroadcastsLeft
  /\ conn <= MaxConns
  /\ channels' = MapPut(channels, conn,
                   [closed |-> FALSE, buf |-> << >>, SessionID |-> sessionID,
                    GitHubUser |-> GitHubUser(sessionID)])
  /\ connections' = MapPut(connections, sessionID, conn)
  /\ chat' = [chat EXCEPT ![g] =
                [pc |-> "append",
                 msg |-> NewMessage("System", <<GitHubUser(sessionID), "joined">>)]]
  /\ UNCHANGED <<messages, nonChatVars>>

\* UnregisterConnection: connections.LoadAndDelete
UnregisterConnection(g, sessionID) ==
  /\ ~Panicked /\ chat[g].pc = "idle" /\ BroadcastsLeft
  /\ sessionID \in DOMAIN connections
  /\ connections' = MapDelete(connections, sessionID)
  /\ chat' = [chat EXCEPT ![g] = [pc |-> "close", conn |-> connections[sessionID]]]
  /\ UNCHANGED <<channels, messages, nonChatVars>>

\* UnregisterConnection: close(conn.MessageChan); the leave notification
\* follows
CloseMessageChan(g) ==
  LET conn == chat[g].conn IN
  /\ ~Panicked /\ chat[g].pc = "close"
  /\ IF channels[conn].closed
     THEN /\ chat' = [chat EXCEPT ![g] =
                        [pc |-> "panic", cause |-> "close of closed channel"]]
          /\ UNCHANGED channels
     ELSE /\ channels' = [channels EXCEPT ![conn].closed = TRUE]
          /\ chat' = [chat EXCEPT ![g] =
                        [pc |-> "append",
                         msg |-> NewMessage("System",
                                            <<channels[conn].GitHubUser, "left">>)]]
  /\ UNCHANGED <<connections, messages, nonChatVars>>

\* BroadcastMessage called by a tool: msg := Message{...}
BroadcastMessage(g, sender, message) ==
  /\ ~Panicked /\ chat[g].pc = "idle" /\ BroadcastsLeft
  /\ chat' = [chat EXCEPT ![g] = [pc |-> "append", msg |-> NewMessage(sender, message)]]
  /\ UNCHANGED <<connections, channels, messages, nonChatVars>>

\* BroadcastMessage: the message history, under messagesMux
AppendMessage(g) ==
  LET appended == Append(messages, chat[g].msg) IN
  /\ ~Panicked /\ chat[g].pc = "append"
  /\ messages' = IF Len(appended) > maxMessages THEN Tail(appended)
                 ELSE appended
  /\ chat' = [chat EXCEPT ![g] =
                [pc |-> "range", msg |-> chat[g].msg, visited |-> {}]]
  /\ UNCHANGED <<connections, channels, nonChatVars>>

\* connections.Range: the next key is loaded and its value handed to the
\* callback, or the iteration is over
RangeNext(g) ==
  /\ ~Panicked /\ chat[g].pc = "range"
  /\ IF DOMAIN connections \subseteq chat[g].visited
     THEN chat' = [chat EXCEPT ![g] = [pc |-> "idle"]]
     ELSE \E key \in DOMAIN connections \ chat[g].visited :
            chat' = [chat EXCEPT ![g] =
                       [pc |-> "send", msg |-> chat[g].msg,
                        visited |-> chat[g].visited \cup {key},
                        conn |-> connections[key]]]
  /\ UNCHANGED <<connections, channels, messages, nonChatVars>>

\* The callback of Range: select { case conn.MessageChan <- msg: default: }
\* A send on a closed channel panics, in a select with a default too.
SelectSend(g) ==
  LET conn == chat[g].conn IN
  /\ ~Panicked /\ chat[g].pc = "send"
  /\ IF channels[conn].closed
     THEN /\ chat' = [chat EXCEPT ![g] =
                        [pc |-> "panic", cause |-> "send on closed channel"]]
          /\ UNCHANGED channels
     ELSE /\ channels' =
               IF Len(channels[conn].buf) < MessageChanCap
               THEN [channels EXCEPT ![conn].buf = Append(@, chat[g].msg)]
               ELSE channels
          /\ chat' = [chat EXCEPT ![g] =
                        [pc |-> "range", msg |-> chat[g].msg,
                         visited |-> chat[g].visited]]
  /\ UNCHANGED <<connections, messages, nonChatVars>>

NextChat ==
  \E g \in Goroutines :
    \/ \E sessionID \in Sessions : RegisterConnection(g, sessionID)
    \/ \E sessionID \in Sessions : UnregisterConnection(g, sessionID)
    \/ CloseMessageChan(g)
    \/ BroadcastMessage(g, "alice", "hello")
    \/ AppendMessage(g)
    \/ RangeNext(g)
    \/ SelectSend(g)

SpecChat == Init /\ [][NextChat]_vars

(***************************************************************************)
(* C40: in the chat relay, whatever the interleaving of BroadcastMessage   *)
(* with UnregisterConnection, no message is sent on a MessageChan after    *)
(* the channel has been closed, and no channel is closed twice: no         *)
(* goroutine panics on a closed channel.                                   *)
(***************************************************************************)
C40_NoSendOnClosedChannel ==
  \A g \in Goroutines : chat[g].pc # "panic"

====
